---- MODULE Spec2Model ----
(***************************************************************************)
(* A model of the DataOps pipeline builder (src/pipline-builder/main1.py): *)
(* the DataOpsManager registry (an in-memory dict per manager instance and *)
(* one JSON file shared by the instances), the column classifier of        *)
(* AIDataAnalyzer and the directive synthesis of _create_pipeline_config.  *)
(*                                                                         *)
(* Python str is a TLA+ string; a Python dict is a sequence of <<key,      *)
(* value>> pairs in insertion order (what a dict iterates in and what      *)
(* json.dump writes); a Python list is a sequence.                         *)
(***************************************************************************)
EXTENDS Integers, Sequences, FiniteSets, TLC

VARIABLES
    pipelines,  \* manager instance -> self.pipelines (dict name -> PipelineConfig)
    file,       \* the registry file at config_path, shared by the instances
    now,        \* the wall clock read by datetime.now()
    call,       \* the operation that ran last, with its arguments
    ret,        \* the value that operation returned
    ops,        \* number of operations run so far
    column,     \* the column that _infer_column_types is classifying
    semantic    \* the label it gave that column ("unset" before)

vars == <<pipelines, file, now, call, ret, ops, column, semantic>>

---------------------------------------------------------------------------
(* Bounds of the model.                                                    *)

MaxOps == 3
MaxClock == 1

Managers == {"m1", "m2"}
Names == {"p1", "p2"}

---------------------------------------------------------------------------
(* Python values.                                                          *)

None == [py |-> "None"]

\* str methods
Ch(s, i) == SubSeq(s, i, i)

Contains(s, k) ==
    \E i \in 1..(Len(s) - Len(k) + 1) : SubSeq(s, i, i + Len(k) - 1) = k

EndsWith(s, suffix) ==
    /\ Len(s) >= Len(suffix)
    /\ SubSeq(s, Len(s) - Len(suffix) + 1, Len(s)) = suffix

StartsWith(s, prefix) ==
    /\ Len(s) >= Len(prefix)
    /\ SubSeq(s, 1, Len(prefix)) = prefix

UpperChars == "ABCDEFGHIJKLMNOPQRSTUVWXYZ"
LowerChars == "abcdefghijklmnopqrstuvwxyz"
DigitChars == "0123456789"

IsUpper(c) == \E i \in 1..Len(UpperChars) : Ch(UpperChars, i) = c
IsLower(c) == \E i \in 1..Len(LowerChars) : Ch(LowerChars, i) = c
IsDigit(c) == \E i \in 1..Len(DigitChars) : Ch(DigitChars, i) = c
IsAlpha(c) == IsUpper(c) \/ IsLower(c)

LowerChar(c) ==
    IF IsUpper(c)
    THEN Ch(LowerChars, CHOOSE i \in 1..Len(UpperChars) : Ch(UpperChars, i) = c)
    ELSE c

RECURSIVE Lower(_)
Lower(s) == IF s = "" THEN "" ELSE LowerChar(Ch(s, 1)) \o Lower(Tail(s))

DigitValue(c) == (CHOOSE i \in 1..Len(DigitChars) : Ch(DigitChars, i) = c) - 1

RECURSIVE IntToStr(_)
IntToStr(n) ==
    IF n < 10 THEN Ch(DigitChars, n + 1)
    ELSE IntToStr(n \div 10) \o Ch(DigitChars, (n % 10) + 1)

RECURSIVE StrToInt(_)
StrToInt(s) ==
    IF Len(s) = 1 THEN DigitValue(s)
    ELSE 10 * StrToInt(SubSeq(s, 1, Len(s) - 1)) + DigitValue(Ch(s, Len(s)))

AllDigits(s) == \A i \in 1..Len(s) : IsDigit(Ch(s, i))

RECURSIVE ZeroPad(_, _)
ZeroPad(s, width) == IF Len(s) >= width THEN s ELSE ZeroPad("0" \o s, width)

\* a store that appends without looking for the key
PutAppending(d, k, v) == Append(d, <<k, v>>)

\* dict methods on a sequence of <<key, value>> pairs
Keys(d) == {d[i][1] : i \in 1..Len(d)}
Has(d, k) == k \in Keys(d)
Get(d, k) == d[CHOOSE i \in 1..Len(d) : d[i][1] = k][2]
Put(d, k, v) ==
    IF Has(d, k)
    THEN [i \in 1..Len(d) |-> IF d[i][1] = k THEN <<k, v>> ELSE d[i]]
    ELSE Append(d, <<k, v>>)
DelKey(e, k) == e[1] # k
Del(d, k) == SelectSeq(d, LAMBDA e : DelKey(e, k))

---------------------------------------------------------------------------
(* datetime: an instant is [sec, us]; the clock ticks in half seconds.     *)

Instant(t) == [sec |-> t \div 2, us |-> (t % 2) * 500000]

IsoPrefix == "2024-01-01T00:00:"

\* isoformat(timespec='seconds'): the text without the fraction
isoformatSeconds(dt) == IsoPrefix \o ZeroPad(IntToStr(dt.sec), 2)

\* datetime.isoformat(): the fraction is left out when microsecond = 0
isoformat(dt) ==
    IsoPrefix \o ZeroPad(IntToStr(dt.sec), 2)
        \o (IF dt.us = 0 THEN "" ELSE "." \o ZeroPad(IntToStr(dt.us), 6))

\* datetime.fromisoformat(): raises ValueError on any other text
IsIsoText(s) ==
    /\ StartsWith(s, IsoPrefix)
    /\ LET rest == SubSeq(s, Len(IsoPrefix) + 1, Len(s))
       IN  /\ Len(rest) \in {2, 9}
           /\ AllDigits(SubSeq(rest, 1, 2))
           /\ Len(rest) = 9 =>
                 /\ Ch(rest, 3) = "."
                 /\ AllDigits(SubSeq(rest, 4, 9))

fromisoformat(s) ==
    LET rest == SubSeq(s, Len(IsoPrefix) + 1, Len(s))
    IN  [sec |-> StrToInt(SubSeq(rest, 1, 2)),
         us  |-> IF Len(rest) = 2 THEN 0 ELSE StrToInt(SubSeq(rest, 4, 9))]

---------------------------------------------------------------------------
(* PipelineConfig and the registry file.                                   *)

ConfigFields ==
    {"name", "source_type", "source_config", "transformations",
     "destination_type", "destination_config", "schedule", "quality_checks",
     "framework", "created_at"}

RequiredFields == ConfigFields \ {"framework", "created_at"}

\* PipelineConfig(**kw) raises TypeError on a missing or an unexpected keyword
AcceptsKwargs(kw) ==
    /\ RequiredFields \subseteq DOMAIN kw
    /\ DOMAIN kw \subseteq ConfigFields

\* the dataclass constructor and __post_init__, run at clock t
PipelineConfig(kw, t) ==
    [f \in ConfigFields |->
        IF f \in DOMAIN kw THEN kw[f]
        ELSE IF f = "framework" THEN "airflow"
        ELSE Instant(t)]

\* asdict(config) with created_at replaced by its text
ConfigToJson(config) == [config EXCEPT !.created_at = isoformat(@)]

\* The file is absent, holds text json.load rejects, or holds a JSON object
\* whose members are the entries, in order.
FileAbsent == [kind |-> "absent"]
FileGarbage == [kind |-> "garbage"]
FileJson(entries) == [kind |-> "json", entries |-> entries]

\* the loop of _load_configurations over the members left to read; an
\* exception leaves the loop and keeps what was stored before it
RECURSIVE LoadEntries(_, _, _)
LoadEntries(entries, acc, t) ==
    IF entries = <<>> THEN acc
    ELSE LET name == entries[1][1]
             data == entries[1][2]
         IN  IF "created_at" \in DOMAIN data /\ ~IsIsoText(data.created_at)
             THEN acc
             ELSE LET kw == IF "created_at" \in DOMAIN data
                            THEN [data EXCEPT !.created_at = fromisoformat(@)]
                            ELSE data
                  IN  IF ~AcceptsKwargs(kw) THEN acc
                      ELSE LoadEntries(Tail(entries),
                                       Put(acc, name, PipelineConfig(kw, t)), t)

\* _load_configurations into the empty dict of a new manager
LoadConfigurations(f, t) ==
    IF f.kind = "json" THEN LoadEntries(f.entries, <<>>, t) ELSE <<>>

\* How a save can end: the file is written; open() raises and the file is
\* left as it was; or the write raises after open() has truncated the file.
SaveOutcomes == {"written", "unwritable", "truncated"}

\* a save that writes the first entry alone
SerializeFirstOnly(p) ==
    FileJson([i \in 1..(IF Len(p) > 1 THEN 1 ELSE Len(p)) |->
                <<p[i][1], ConfigToJson(p[i][2])>>])

\* the JSON object json.dump writes for self.pipelines
SerializeConfigs(p) ==
    FileJson([i \in 1..Len(p) |-> <<p[i][1], ConfigToJson(p[i][2])>>])

\* a save that reads the file first and keeps the entries it does not hold
SaveMergingFile(p, f, outcome) ==
    CASE outcome = "written" ->
            LET kept == IF f.kind = "json"
                        THEN SelectSeq(f.entries, LAMBDA e : ~Has(p, e[1]))
                        ELSE <<>>
            IN  FileJson(kept \o [i \in 1..Len(p) |-> <<p[i][1], ConfigToJson(p[i][2])>>])
      [] outcome = "unwritable" -> f
      [] outcome = "truncated"  -> FileGarbage

\* _save_configurations: the content of the file afterwards
SaveConfigurations(p, f, outcome) ==
    CASE outcome = "written"    -> SerializeConfigs(p)
      [] outcome = "unwritable" -> f
      [] outcome = "truncated"  -> FileGarbage

---------------------------------------------------------------------------
(* AIDataAnalyzer.  A DataFrame is [columns, corr_matrix, clusters,        *)
(* outliers]: columns is the sequence of its columns [name, dtype, cells], *)
(* a cell is [kind |-> "null"], [kind |-> "str", v |-> text] or            *)
(* [kind |-> "int", n |-> n]; corr_matrix, clusters and outliers are what  *)
(* pandas' corr(), KMeans and the isolation forest answer for it.          *)

NullCell == [kind |-> "null"]
StrCell(v) == [kind |-> "str", v |-> v]
IntCell(n) == [kind |-> "int", n |-> n]

\* len(df)
NumRows(df) == Len(df.columns[1].cells)

\* Series.dropna().astype(str).tolist()
IsNotNull(cell) == cell.kind # "null"
AsStr(cell) == IF cell.kind = "int" THEN IntToStr(cell.n) ELSE cell.v
DropnaAsStr(cells) ==
    LET kept == SelectSeq(cells, IsNotNull)
    IN  [i \in 1..Len(kept) |-> AsStr(kept[i])]

\* Series.head(n) and list[:n]
Take(seq, n) == SubSeq(seq, 1, IF Len(seq) < n THEN Len(seq) ELSE n)

\* Series.isnull().sum()
NullCount(cells) == Len(SelectSeq(cells, LAMBDA c : c.kind = "null"))

\* Series.duplicated().sum(): the rows equal to an earlier row
DuplicatedCount(cells) ==
    Cardinality({i \in 1..Len(cells) : \E j \in 1..(i - 1) : cells[j] = cells[i]})

\* Series.nunique(): the distinct non-null values
NUnique(cells) == Cardinality({cells[i] : i \in 1..Len(cells)} \ {NullCell})

\* A percentage k / n * 100 is kept as the fraction [num, den].
Percent(k, n) == [num |-> 100 * k, den |-> n]
Above(pct, threshold) == pct.num > threshold * pct.den

\* f"{x:.1f}" of a fraction and f"{x:.2f}" of hundredths
Tenths(pct) == (10 * pct.num + pct.den \div 2) \div pct.den
FormatTenths(t) == IntToStr(t \div 10) \o "." \o IntToStr(t % 10)
Format1f(pct) == FormatTenths(Tenths(pct))
Format2f(h) ==
    (IF h < 0 THEN "-" ELSE "")
        \o LET a == IF h < 0 THEN -h ELSE h
           IN  IntToStr(a \div 100) \o "." \o ZeroPad(IntToStr(a % 100), 2)

NullThreshold == 20
DuplicateThreshold == 10
AnomalyThreshold == 5

\* _assess_data_quality: one metrics record per column, in column order
ColumnMetrics(col, n) ==
    LET base == [null_percentage |-> Percent(NullCount(col.cells), n),
                 unique_values   |-> NUnique(col.cells),
                 data_type       |-> col.dtype,
                 completeness    |-> Percent(n - NullCount(col.cells), n)]
    IN  IF col.dtype \in {"object", "string"}
        THEN [f \in DOMAIN base \cup {"duplicate_percentage"} |->
                 IF f = "duplicate_percentage"
                 THEN Percent(DuplicatedCount(col.cells), n)
                 ELSE base[f]]
        ELSE base

AssessDataQuality(df) ==
    [i \in 1..Len(df.columns) |->
        <<df.columns[i].name, ColumnMetrics(df.columns[i], NumRows(df))>>]

---------------------------------------------------------------------------
(* The patterns of _classify_column_type, matched as re.match does: from   *)
(* the start of the text, and to its end where the pattern ends in $.      *)

Whitespace == {" ", "\t", "\n", "\r", "\f"}

\* str.lstrip() and str.rstrip()
RECURSIVE LStrip(_)
LStrip(s) ==
    IF s # "" /\ Ch(s, 1) \in Whitespace THEN LStrip(SubSeq(s, 2, Len(s))) ELSE s

RECURSIVE RStrip(_)
RStrip(s) ==
    IF s # "" /\ Ch(s, Len(s)) \in Whitespace THEN RStrip(SubSeq(s, 1, Len(s) - 1)) ELSE s

InClass(c, cls) ==
    CASE cls = "digit" -> IsDigit(c)
      [] cls = "space" -> c \in Whitespace
      [] cls = "sep"   -> c \in Whitespace \cup {".", "-"}
      [] OTHER         -> c = cls

Req(cls) == [cls |-> cls, opt |-> FALSE]
Opt(cls) == [cls |-> cls, opt |-> TRUE]

\* items[j..] match s from position i on; each item is one character of a
\* class, optional (?) or not
RECURSIVE MatchItems(_, _, _, _, _)
MatchItems(s, i, items, j, toEnd) ==
    IF j > Len(items) THEN (~toEnd \/ i = Len(s) + 1)
    ELSE \/ items[j].opt /\ MatchItems(s, i, items, j + 1, toEnd)
         \/ /\ i <= Len(s)
            /\ InClass(Ch(s, i), items[j].cls)
            /\ MatchItems(s, i + 1, items, j + 1, toEnd)

Digits(n) == [i \in 1..n |-> Req("digit")]

\* ^[a-zA-Z0-9._%+-]+@[a-zA-Z0-9.-]+\.[a-zA-Z]{2,}$
IsLocalChar(c) == IsAlpha(c) \/ IsDigit(c) \/ c \in {".", "_", "%", "+", "-"}
IsDomainChar(c) == IsAlpha(c) \/ IsDigit(c) \/ c \in {".", "-"}
MatchesEmail(s) ==
    \E a \in 2..Len(s) : \E d \in (a + 2)..(Len(s) - 2) :
        /\ Ch(s, a) = "@"
        /\ \A i \in 1..(a - 1) : IsLocalChar(Ch(s, i))
        /\ Ch(s, d) = "."
        /\ \A i \in (a + 1)..(d - 1) : IsDomainChar(Ch(s, i))
        /\ \A i \in (d + 1)..Len(s) : IsAlpha(Ch(s, i))

\* ^\+?1?-?\.?\s?\(?[0-9]{3}\)?[\s.-]?[0-9]{3}[\s.-]?[0-9]{4}$
PhoneItems ==
    <<Opt("+"), Opt("1"), Opt("-"), Opt("."), Opt("space"), Opt("(")>>
        \o Digits(3) \o <<Opt(")"), Opt("sep")>>
        \o Digits(3) \o <<Opt("sep")>> \o Digits(4)
MatchesPhone(s) == MatchItems(s, 1, PhoneItems, 1, TRUE)

\* \d{4}-\d{2}-\d{2}, \d{2}/\d{2}/\d{4}, \d{2}-\d{2}-\d{4}
DatePatterns ==
    << Digits(4) \o <<Req("-")>> \o Digits(2) \o <<Req("-")>> \o Digits(2),
       Digits(2) \o <<Req("/")>> \o Digits(2) \o <<Req("/")>> \o Digits(4),
       Digits(2) \o <<Req("-")>> \o Digits(2) \o <<Req("-")>> \o Digits(4) >>
MatchesDate(s) ==
    \E k \in 1..Len(DatePatterns) : MatchItems(s, 1, DatePatterns[k], 1, FALSE)

IdKeywords == {"id", "key", "uuid"}
CurrencyKeywords == {"price", "cost", "amount", "salary"}
GeoKeywords == {"address", "city", "state", "country", "zip"}

SampleLimit == 10
HeadLimit == 100

\* sample_values[:10]
FirstSamples(sample_values) == Take(sample_values, SampleLimit)
AnyEmail(samples) == \E i \in 1..Len(samples) : MatchesEmail(samples[i])
AnyPhone(samples) == \E i \in 1..Len(samples) : MatchesPhone(samples[i])
AnyDate(samples) == \E i \in 1..Len(samples) : MatchesDate(samples[i])
AnyKeyword(text, keywords) == \E k \in keywords : Contains(text, k)

\* a classifier with two rules of the cascade in the other order
ClassifyPhoneFirst(column_name, sample_values) ==
    LET column_lower == Lower(column_name)
    IN  IF AnyPhone(FirstSamples(sample_values)) THEN "phone"
        ELSE IF AnyEmail(FirstSamples(sample_values)) THEN "email"
        ELSE IF AnyDate(FirstSamples(sample_values)) THEN "date"
        ELSE IF AnyKeyword(column_lower, CurrencyKeywords) THEN "currency"
        ELSE IF AnyKeyword(column_lower, IdKeywords) THEN "identifier"
        ELSE IF AnyKeyword(column_lower, GeoKeywords) THEN "geographic"
        ELSE "generic"

\* _classify_column_type
ClassifyColumnType(column_name, sample_values) ==
    LET column_lower == Lower(column_name)
    IN  IF AnyEmail(FirstSamples(sample_values)) THEN "email"
        ELSE IF AnyPhone(FirstSamples(sample_values)) THEN "phone"
        ELSE IF AnyDate(FirstSamples(sample_values)) THEN "date"
        ELSE IF AnyKeyword(column_lower, IdKeywords) THEN "identifier"
        ELSE IF AnyKeyword(column_lower, CurrencyKeywords) THEN "currency"
        ELSE IF AnyKeyword(column_lower, GeoKeywords) THEN "geographic"
        ELSE "generic"

\* the body of the loop of _infer_column_types, for one column
InferColumnType(col) ==
    ClassifyColumnType(col.name, Take(DropnaAsStr(col.cells), HeadLimit))

\* _infer_column_types: the dict column -> label, in column order
InferColumnTypes(df) ==
    [i \in 1..Len(df.columns) |->
        <<df.columns[i].name, InferColumnType(df.columns[i])>>]

---------------------------------------------------------------------------
(* Correlations, anomalies and the recommendation texts.                   *)

IsNumeric(col) == col.dtype \in {"int64", "float64"}
NumericColumns(df) == SelectSeq(df.columns, IsNumeric)

MinAnomalyRows == 10

\* A correlation is kept in hundredths; DataFrame.corr() gives NaN for a
\* column without variance.
Corr(h) == [kind |-> "float", h |-> h]
NaN == [kind |-> "nan"]
Abs(x) == IF x < 0 THEN -x ELSE x

StrongThreshold == 70

\* a threshold that takes 0.7 itself for strong
IsStrongInclusive(corr_value) ==
    corr_value.kind = "float" /\ Abs(corr_value.h) >= StrongThreshold

\* abs(corr_value) > 0.7, which is False for NaN
IsStrong(corr_value) == corr_value.kind = "float" /\ Abs(corr_value.h) > StrongThreshold

\* the nested loops of _analyze_correlations over range(n), range(i+1, n),
\* from row i on
RECURSIVE StrongFrom(_, _, _)
StrongFrom(names, corr_matrix, i) ==
    IF i > Len(names) THEN <<>>
    ELSE LET js == SelectSeq([k \in 1..(Len(names) - i) |-> i + k],
                             LAMBDA j : IsStrong(corr_matrix[i][j]))
         IN  [k \in 1..Len(js) |->
                 [column1 |-> names[i], column2 |-> names[js[k]],
                  correlation |-> corr_matrix[i][js[k]].h]]
             \o StrongFrom(names, corr_matrix, i + 1)

\* a dict without keys
EmptyResult == [k \in {} |-> TRUE]

\* _analyze_correlations; df.corr_matrix is numeric_df.corr(), a square
\* matrix over the numeric columns in column order
AnalyzeCorrelations(df) ==
    IF Len(NumericColumns(df)) > 1
    THEN [strong_correlations |->
              StrongFrom([i \in 1..Len(NumericColumns(df)) |-> NumericColumns(df)[i].name],
                         df.corr_matrix, 1),
          correlation_matrix |-> df.corr_matrix]
    ELSE [correlations |-> "Insufficient numeric columns for correlation analysis"]

\* _detect_patterns; df.clusters is what StandardScaler and KMeans give on
\* the numeric columns: the cluster sizes, or None when they raise
DetectPatterns(df) ==
    IF Len(NumericColumns(df)) > 0 /\ NumRows(df) > 0
    THEN IF df.clusters # None
         THEN [clusters |-> [n_clusters |-> Len(df.clusters.sizes),
                             cluster_sizes |-> df.clusters.sizes]]
         ELSE [clusters |-> [error |-> "Could not perform clustering"]]
    ELSE EmptyResult

\* _detect_anomalies; df.outliers is what IsolationForest gives: the number
\* of rows it marks -1, or None when it raises
DetectAnomalies(df) ==
    IF Len(NumericColumns(df)) > 0 /\ NumRows(df) > MinAnomalyRows
    THEN IF df.outliers # None
         THEN [numeric_anomalies |->
                  [count |-> df.outliers.count,
                   percentage |-> Percent(df.outliers.count, NumRows(df))]]
         ELSE [numeric_anomalies |-> [error |-> "Could not detect anomalies"]]
    ELSE EmptyResult

RECURSIVE QualityRecommendations(_)
QualityRecommendations(quality) ==
    IF quality = <<>> THEN <<>>
    ELSE LET col == quality[1][1]
             metrics == quality[1][2]
         IN  (IF Above(metrics.null_percentage, NullThreshold)
              THEN << "High null percentage (" \o Format1f(metrics.null_percentage)
                      \o "%) in column '" \o col
                      \o "'. Consider imputation or removal." >>
              ELSE <<>>)
             \o (IF /\ "duplicate_percentage" \in DOMAIN metrics
                    /\ Above(metrics.duplicate_percentage, DuplicateThreshold)
                 THEN << "High duplicate percentage ("
                         \o Format1f(metrics.duplicate_percentage)
                         \o "%) in column '" \o col
                         \o "'. Consider deduplication." >>
                 ELSE <<>>)
             \o QualityRecommendations(Tail(quality))

RECURSIVE TypeRecommendations(_)
TypeRecommendations(column_types) ==
    IF column_types = <<>> THEN <<>>
    ELSE LET col == column_types[1][1]
             col_type == column_types[1][2]
         IN  (CASE col_type = "email" ->
                     << "Column '" \o col
                        \o "' contains emails. Consider email validation and privacy measures." >>
                [] col_type = "identifier" ->
                     << "Column '" \o col
                        \o "' appears to be an identifier. Consider indexing for performance." >>
                [] col_type = "date" ->
                     << "Column '" \o col
                        \o "' contains dates. Consider date parsing and time-based analysis." >>
                [] OTHER -> <<>>)
             \o TypeRecommendations(Tail(column_types))

CorrelationRecommendations(correlations) ==
    IF "strong_correlations" \in DOMAIN correlations
    THEN [i \in 1..Len(correlations.strong_correlations) |->
            LET corr == correlations.strong_correlations[i]
            IN  "Strong correlation (" \o Format2f(corr.correlation)
                \o ") between '" \o corr.column1 \o "' and '" \o corr.column2
                \o "'. Consider feature engineering."]
    ELSE <<>>

AnomalyRecommendations(anomalies) ==
    IF /\ "numeric_anomalies" \in DOMAIN anomalies
       /\ "percentage" \in DOMAIN anomalies.numeric_anomalies
       /\ Above(anomalies.numeric_anomalies.percentage, AnomalyThreshold)
    THEN << "High anomaly rate ("
            \o Format1f(anomalies.numeric_anomalies.percentage)
            \o "%). Consider outlier handling strategies." >>
    ELSE <<>>

\* _generate_recommendations
GenerateRecommendations(analysis) ==
    QualityRecommendations(analysis.data_quality)
        \o TypeRecommendations(analysis.column_types)
        \o CorrelationRecommendations(analysis.correlations)
        \o AnomalyRecommendations(analysis.anomalies)

\* analyze_data_patterns
AnalyzeDataPatterns(df) ==
    LET partial == [data_quality |-> AssessDataQuality(df),
                    column_types |-> InferColumnTypes(df),
                    patterns     |-> DetectPatterns(df),
                    anomalies    |-> DetectAnomalies(df),
                    correlations |-> AnalyzeCorrelations(df)]
    IN  [data_quality    |-> partial.data_quality,
         column_types    |-> partial.column_types,
         patterns        |-> partial.patterns,
         anomalies       |-> partial.anomalies,
         correlations    |-> partial.correlations,
         recommendations |-> GenerateRecommendations(partial)]

---------------------------------------------------------------------------
(* DataOpsManager._create_pipeline_config                                  *)

\* recommendation.split("'")[1]
FirstQuote(s) == CHOOSE i \in 1..Len(s) : Ch(s, i) = "'" /\ \A j \in 1..(i - 1) : Ch(s, j) # "'"
SplitQuoteSecond(s) ==
    LET rest == SubSeq(s, FirstQuote(s) + 1, Len(s))
    IN  IF Contains(rest, "'") THEN SubSeq(rest, 1, FirstQuote(rest) - 1) ELSE rest

RECURSIVE TransformationsFor(_)
TransformationsFor(recommendations) ==
    IF recommendations = <<>> THEN <<>>
    ELSE LET recommendation == recommendations[1]
         IN  (IF Contains(Lower(recommendation), "null percentage")
              THEN << [type   |-> "fill_nulls",
                       column |-> IF Contains(recommendation, "'")
                                  THEN SplitQuoteSecond(recommendation)
                                  ELSE "unknown_column",
                       method |-> "median"] >>
              ELSE IF Contains(Lower(recommendation), "duplicate")
              THEN << [type |-> "remove_duplicates", subset |-> None] >>
              ELSE <<>>)
             \o TransformationsFor(Tail(recommendations))

\* the checks in the reverse of the column order
RECURSIVE QualityChecksReversed(_)
QualityChecksReversed(column_types) ==
    IF column_types = <<>> THEN <<>>
    ELSE QualityChecksReversed(Tail(column_types))
         \o (CASE column_types[1][2] = "email" ->
                    << [type |-> "email_validation", column |-> column_types[1][1]] >>
               [] column_types[1][2] = "identifier" ->
                    << [type |-> "unique", column |-> column_types[1][1]] >>
               [] OTHER -> <<>>)

RECURSIVE QualityChecksFor(_)
QualityChecksFor(column_types) ==
    IF column_types = <<>> THEN <<>>
    ELSE LET col == column_types[1][1]
             col_type == column_types[1][2]
         IN  (CASE col_type = "email" -> << [type |-> "email_validation", column |-> col] >>
                [] col_type = "identifier" -> << [type |-> "unique", column |-> col] >>
                [] OTHER -> <<>>)
             \o QualityChecksFor(Tail(column_types))

\* a schedule chosen by the date columns that the analysis did find
ScheduleForDates(analysis) ==
    IF \E i \in 1..Len(analysis.column_types) : analysis.column_types[i][2] = "date"
    THEN "@weekly" ELSE "@daily"

\* the schedule from analysis['ai_insights']['data_freshness'], a dict
\* column -> info, when the analysis carries one
FreshnessInfo(analysis) ==
    IF "ai_insights" \in DOMAIN analysis
    THEN IF "data_freshness" \in DOMAIN analysis.ai_insights
         THEN analysis.ai_insights.data_freshness ELSE <<>>
    ELSE <<>>

RECURSIVE SumDaysOld(_)
SumDaysOld(freshness_info) ==
    IF freshness_info = <<>> THEN 0
    ELSE (IF "days_old" \in DOMAIN freshness_info[1][2]
          THEN freshness_info[1][2].days_old ELSE 7)
         + SumDaysOld(Tail(freshness_info))

ScheduleFor(analysis) ==
    LET freshness_info == FreshnessInfo(analysis)
    IN  IF freshness_info # <<>>
        THEN IF SumDaysOld(freshness_info) <= 1 * Len(freshness_info) THEN "@hourly"
             ELSE IF SumDaysOld(freshness_info) <= 7 * Len(freshness_info) THEN "@daily"
             ELSE "@weekly"
        ELSE "@daily"

DefaultDestination == [type |-> "csv", file_path |-> "output.csv"]

\* _create_pipeline_config up to its return: the keywords it passes to
\* PipelineConfig
ConfigKeywords(name, data_source, analysis, framework, destination_config) ==
    [name               |-> name,
     source_type        |-> IF EndsWith(data_source, ".csv") THEN "csv"
                            ELSE IF EndsWith(data_source, ".json") THEN "json"
                            ELSE "database",
     source_config      |-> IF EndsWith(data_source, ".csv") \/ EndsWith(data_source, ".json")
                            THEN [file_path |-> data_source]
                            ELSE [connection_string |-> data_source],
     transformations    |-> TransformationsFor(analysis.recommendations),
     destination_type   |-> IF "type" \in DOMAIN destination_config
                            THEN destination_config.type ELSE "csv",
     destination_config |-> destination_config,
     schedule           |-> ScheduleFor(analysis),
     quality_checks     |-> QualityChecksFor(analysis.column_types),
     framework          |-> framework]

---------------------------------------------------------------------------
(* PipelineGenerator and DataQualityValidator, as far as the manager's     *)
(* results show them.                                                      *)

\* generate_pipeline_code: the names of the artifacts of the bundle
GeneratedFiles(config) ==
    (CASE Lower(config.framework) = "airflow" -> <<"dag.py">>
       [] Lower(config.framework) = "dbt"     -> <<"model.sql">>
       [] Lower(config.framework) = "prefect" -> <<"flow.py">>
       [] OTHER -> <<>>)
    \o <<"requirements.txt", "config.yaml">>

HasColumn(df, name) == \E i \in 1..Len(df.columns) : df.columns[i].name = name
ColumnOf(df, name) == df.columns[CHOOSE i \in 1..Len(df.columns) : df.columns[i].name = name]

\* _execute_quality_rule.  A rule raises, and the except clause answers,
\* when it has no 'type', when a rule of a known type has no 'column' or
\* names a column that df has not, when a range rule has no bound, and when
\* a range rule compares text with its bounds.
RuleRaises(df, rule) ==
    \/ "type" \notin DOMAIN rule
    \/ /\ rule.type \in {"not_null", "unique", "range"}
       /\ \/ "column" \notin DOMAIN rule
          \/ ~HasColumn(df, rule.column)
          \/ /\ rule.type = "range"
             /\ \/ ~({"min", "max"} \subseteq DOMAIN rule)
                \/ \E i \in 1..NumRows(df) : ColumnOf(df, rule.column).cells[i].kind = "str"

ExecuteQualityRule(df, rule) ==
    IF RuleRaises(df, rule)
    THEN [rule |-> rule, passed |-> FALSE, message |-> "Error executing rule"]
    ELSE CASE rule.type = "not_null" ->
                LET null_count == NullCount(ColumnOf(df, rule.column).cells)
                IN  [rule |-> rule, passed |-> null_count = 0,
                     message |-> IF null_count = 0 THEN "No null values found"
                                 ELSE "Found " \o IntToStr(null_count)
                                      \o " null values in " \o rule.column]
           [] rule.type = "unique" ->
                LET duplicate_count == DuplicatedCount(ColumnOf(df, rule.column).cells)
                IN  [rule |-> rule, passed |-> duplicate_count = 0,
                     message |-> IF duplicate_count = 0 THEN "All values are unique"
                                 ELSE "Found " \o IntToStr(duplicate_count)
                                      \o " duplicate values in " \o rule.column]
           [] rule.type = "range" ->
                LET cells == ColumnOf(df, rule.column).cells
                    out_of_range ==
                        Cardinality({i \in 1..Len(cells) :
                            /\ cells[i].kind = "int"
                            /\ cells[i].n < rule.min \/ cells[i].n > rule.max})
                IN  [rule |-> rule, passed |-> out_of_range = 0,
                     message |-> IF out_of_range = 0 THEN "All values in range"
                                 ELSE "Found " \o IntToStr(out_of_range)
                                      \o " values out of range [" \o IntToStr(rule.min)
                                      \o ", " \o IntToStr(rule.max) \o "] in "
                                      \o rule.column]
           [] OTHER ->
                [rule |-> rule, passed |-> FALSE,
                 message |-> "Unknown rule type: " \o rule.type]

\* A score is kept as the fraction [num, den]; a division by zero gives nan.
Score(num, den) == IF den = 0 THEN NaN ELSE [num |-> num, den |-> den]

\* the anomaly part of _ai_quality_assessment; df.outliers is what the
\* IsolationForest gives, as in _detect_anomalies
AnomalyDetection(df) ==
    IF Len(NumericColumns(df)) > 0 /\ NumRows(df) > MinAnomalyRows
    THEN IF df.outliers # None
         THEN << <<"anomaly_detection",
                   [anomaly_percentage |-> Percent(df.outliers.count, NumRows(df)),
                    anomaly_count      |-> df.outliers.count,
                    status |-> IF Above(Percent(df.outliers.count, NumRows(df)),
                                        AnomalyThreshold)
                               THEN "high" ELSE "normal"]>> >>
         ELSE << <<"anomaly_detection",
                   [error |-> "Could not perform anomaly detection"]>> >>
    ELSE <<>>

\* value_counts() of the lengths of a column's texts: how many texts have
\* the most frequent length, and how many lengths there are
LengthsOf(col) == {Len(DropnaAsStr(col.cells)[i]) : i \in 1..Len(DropnaAsStr(col.cells))}

CountOfLength(col, n) ==
    Cardinality({i \in 1..Len(DropnaAsStr(col.cells)) : Len(DropnaAsStr(col.cells)[i]) = n})

MaxCount(col) ==
    CHOOSE k \in {CountOfLength(col, n) : n \in LengthsOf(col)} :
        \A n \in LengthsOf(col) : CountOfLength(col, n) <= k

\* _analyze_pattern_consistency: a dict column -> info
RECURSIVE AnalyzePatternConsistency(_)
AnalyzePatternConsistency(columns) ==
    IF columns = <<>> THEN <<>>
    ELSE (IF columns[1].dtype = "object" /\ Cardinality(LengthsOf(columns[1])) > 1
          THEN << <<columns[1].name,
                    [type |-> "string_length_pattern",
                     consistency_score |->
                         Score(MaxCount(columns[1]), Len(DropnaAsStr(columns[1].cells))),
                     status |-> IF 10 * MaxCount(columns[1])
                                      < 8 * Len(DropnaAsStr(columns[1].cells))
                                THEN "inconsistent" ELSE "consistent"]>> >>
          ELSE <<>>)
         \o AnalyzePatternConsistency(Tail(columns))

\* A date is written YYYY-MM-DD in the frames of the model; pd.to_datetime
\* reads such a text, reads a number as nanoseconds after 1970-01-01, and
\* raises on any other text.
IsIsoDate(s) ==
    /\ Len(s) = 10
    /\ Ch(s, 5) = "-" /\ Ch(s, 8) = "-"
    /\ AllDigits(SubSeq(s, 1, 4)) /\ AllDigits(SubSeq(s, 6, 7)) /\ AllDigits(SubSeq(s, 9, 10))
    /\ StrToInt(SubSeq(s, 6, 7)) \in 1..12
    /\ StrToInt(SubSeq(s, 9, 10)) \in 1..31

Epoch == "1970-01-01"

ToDatetime(cells) ==
    LET kept == SelectSeq(cells, IsNotNull)
    IN  IF \A i \in 1..Len(kept) : kept[i].kind = "int" \/ IsIsoDate(kept[i].v)
        THEN [i \in 1..Len(kept) |-> IF kept[i].kind = "int" THEN Epoch ELSE kept[i].v]
        ELSE None

IsLeap(y) == y % 4 = 0 /\ (y % 100 # 0 \/ y % 400 = 0)

DaysBeforeMonth == <<0, 31, 59, 90, 120, 151, 181, 212, 243, 273, 304, 334>>

\* the number of the day of a date, counted from 0001-01-01
DayNumber(s) ==
    LET y == StrToInt(SubSeq(s, 1, 4))
        m == StrToInt(SubSeq(s, 6, 7))
        d == StrToInt(SubSeq(s, 9, 10))
    IN  365 * (y - 1) + (y - 1) \div 4 - (y - 1) \div 100 + (y - 1) \div 400
        + DaysBeforeMonth[m] + (IF m > 2 /\ IsLeap(y) THEN 1 ELSE 0) + d

\* dates.max()
LatestDate(dates) ==
    CHOOSE s \in {dates[i] : i \in 1..Len(dates)} :
        \A i \in 1..Len(dates) : DayNumber(dates[i]) <= DayNumber(s)

\* the day of datetime.now(): the clock of the model stays within it
Today == SubSeq(IsoPrefix, 1, 10)

FreshDays == 7

\* _analyze_data_freshness: a dict column -> info, for the columns named
\* after a date or a time whose values pd.to_datetime reads
RECURSIVE AnalyzeDataFreshness(_)
AnalyzeDataFreshness(columns) ==
    IF columns = <<>> THEN <<>>
    ELSE (IF /\ Contains(Lower(columns[1].name), "date")
                  \/ Contains(Lower(columns[1].name), "time")
             /\ ToDatetime(Take(columns[1].cells, HeadLimit)) # None
             /\ ToDatetime(columns[1].cells) # None
             /\ ToDatetime(columns[1].cells) # <<>>
          THEN LET latest_date == LatestDate(ToDatetime(columns[1].cells))
                   days_old == DayNumber(Today) - DayNumber(latest_date)
               IN  << <<columns[1].name,
                        [latest_date |-> latest_date \o "T00:00:00",
                         days_old    |-> days_old,
                         status      |-> IF days_old <= FreshDays THEN "fresh"
                                         ELSE "stale"]>> >>
          ELSE <<>>)
         \o AnalyzeDataFreshness(Tail(columns))

DefaultAccuracy == [num |-> 95, den |-> 100]

\* the accuracy score: max(0, 1 - anomaly_percentage / 100) when the
\* detector gave a percentage, 0.95 otherwise
AccuracyScore(anomaly_detection) ==
    IF anomaly_detection # <<>> /\ "anomaly_percentage" \in DOMAIN anomaly_detection[1][2]
    THEN LET pct == anomaly_detection[1][2].anomaly_percentage
         IN  IF pct.num > 100 * pct.den THEN Score(0, 1)
             ELSE Score(100 * pct.den - pct.num, 100 * pct.den)
    ELSE DefaultAccuracy

\* _ai_quality_assessment: the dict of the insights
AiQualityAssessment(df) ==
    AnomalyDetection(df)
    \o << <<"pattern_consistency", AnalyzePatternConsistency(df.columns)>>,
          <<"data_freshness", AnalyzeDataFreshness(df.columns)>>,
          <<"accuracy_score", AccuracyScore(AnomalyDetection(df))>> >>

RECURSIVE SumNulls(_)
SumNulls(columns) ==
    IF columns = <<>> THEN 0 ELSE NullCount(columns[1].cells) + SumNulls(Tail(columns))

\* _calculate_completeness_score
CalculateCompletenessScore(df) ==
    Score(NumRows(df) * Len(df.columns) - SumNulls(df.columns), NumRows(df) * Len(df.columns))

ConsistentPatterns == 3

\* the score of one column in tenths: 0.7 for a text column whose stripped
\* texts have more than three lengths, 1.0 otherwise
RECURSIVE SumConsistency(_)
SumConsistency(columns) ==
    IF columns = <<>> THEN 0
    ELSE (IF /\ columns[1].dtype = "object"
             /\ Cardinality({Len(RStrip(LStrip(DropnaAsStr(columns[1].cells)[i]))) :
                                i \in 1..Len(DropnaAsStr(columns[1].cells))})
                    > ConsistentPatterns
          THEN 7 ELSE 10)
         + SumConsistency(Tail(columns))

\* _calculate_consistency_score
CalculateConsistencyScore(df) ==
    IF df.columns = <<>> THEN Score(1, 1)
    ELSE Score(SumConsistency(df.columns), 10 * Len(df.columns))

\* the issue list of a validation that stops at the first rule that raises
RECURSIVE IssuesUntilRaise(_, _)
IssuesUntilRaise(df, quality_rules) ==
    IF quality_rules = <<>> THEN <<>>
    ELSE IF RuleRaises(df, quality_rules[1])
    THEN << ExecuteQualityRule(df, quality_rules[1]) >>
    ELSE (IF ExecuteQualityRule(df, quality_rules[1]).passed THEN <<>>
          ELSE << ExecuteQualityRule(df, quality_rules[1]) >>)
         \o IssuesUntilRaise(df, Tail(quality_rules))

\* the loop of validate_data_quality over the rules: the results that did
\* not pass, in the order of the rules
RECURSIVE IssuesOf(_, _)
IssuesOf(df, quality_rules) ==
    IF quality_rules = <<>> THEN <<>>
    ELSE (IF ExecuteQualityRule(df, quality_rules[1]).passed THEN <<>>
          ELSE << ExecuteQualityRule(df, quality_rules[1]) >>)
         \o IssuesOf(df, Tail(quality_rules))

\* validate_data_quality
ValidateDataQuality(df, quality_rules) ==
    LET issues == IssuesOf(df, quality_rules)
        ai_insights == AiQualityAssessment(df)
    IN  [passed      |-> issues = <<>>,
         issues      |-> issues,
         metrics     |-> [total_rows         |-> NumRows(df),
                          total_columns      |-> Len(df.columns),
                          completeness_score |-> CalculateCompletenessScore(df),
                          consistency_score  |-> CalculateConsistencyScore(df),
                          accuracy_score     |-> Get(ai_insights, "accuracy_score")],
         ai_insights |-> ai_insights]

---------------------------------------------------------------------------
(* The inputs of the operations.                                           *)

DfCustomers ==
    [columns |->
        << [name |-> "customer_id", dtype |-> "int64",
            cells |-> <<IntCell(1001), IntCell(1002), IntCell(1003), IntCell(1004)>>],
           [name |-> "email", dtype |-> "object",
            cells |-> <<StrCell("a@b.co"), NullCell, StrCell("c@d.org"), StrCell("e@f.net")>>],
           [name |-> "city", dtype |-> "object",
            cells |-> <<StrCell("Rome"), StrCell("Rome"), StrCell("Oslo"), StrCell("Rome")>>] >>,
     corr_matrix |-> << <<Corr(100)>> >>,
     clusters |-> None,
     outliers |-> None]

DfEvents ==
    [columns |->
        << [name |-> "when", dtype |-> "object",
            cells |-> <<StrCell("2024-01-01"), StrCell("2024-01-02")>>],
           [name |-> "price", dtype |-> "float64",
            cells |-> <<NullCell, IntCell(5)>>],
           [name |-> "cost", dtype |-> "int64",
            cells |-> <<IntCell(3), IntCell(4)>>] >>,
     corr_matrix |-> << <<Corr(100), Corr(85)>>, <<Corr(85), Corr(100)>> >>,
     clusters |-> None,
     outliers |-> None]

\* A data source is a path and what reading it gives: a frame, or None when
\* pandas raises.
SrcCustomers == [path |-> "customers.csv", df |-> DfCustomers]
SrcEvents == [path |-> "events.json", df |-> DfEvents]
SrcMissing == [path |-> "missing.csv", df |-> None]
SrcText == [path |-> "events.txt", df |-> DfEvents]

DataSources == {SrcCustomers, SrcEvents, SrcMissing, SrcText}

\* create_pipeline_from_data's arguments beside the name
Requests ==
    { [data_source |-> SrcCustomers, framework |-> "airflow",
       destination_config |-> None],
      [data_source |-> SrcEvents, framework |-> "dbt",
       destination_config |-> [type |-> "postgresql", table |-> "t"]],
      [data_source |-> SrcMissing, framework |-> "airflow",
       destination_config |-> None],
      [data_source |-> SrcText, framework |-> "prefect",
       destination_config |-> None] }

\* a load step that looks at the read alone, whatever the path ends in
LoadableAnyPath(src) == src.df # None

\* pandas can read the source and create_pipeline_from_data accepts its path
Loadable(src) ==
    /\ EndsWith(src.path, ".csv") \/ EndsWith(src.path, ".json")
    /\ src.df # None

\* analyze_data_patterns and _create_pipeline_config are functions of their
\* arguments alone; their values on the inputs of the model, computed once
AnalysisOf ==
    [src \in {s \in DataSources : s.df # None} |-> AnalyzeDataPatterns(src.df)]

KeywordsOf ==
    [req \in {r \in Requests : Loadable(r.data_source)}, n \in Names |->
        ConfigKeywords(n, req.data_source.path, AnalysisOf[req.data_source],
            req.framework,
            IF req.destination_config = None THEN DefaultDestination
            ELSE req.destination_config)]

\* _create_pipeline_config, run at clock t
CreatePipelineConfig(name, req, t) == PipelineConfig(KeywordsOf[req, name], t)

EmptyDict == <<>>

\* the 'updates' dicts
UpdateInputs ==
    { EmptyDict,
      [schedule |-> "@hourly"],
      [transformations |-> << [type |-> "filter", condition |-> "x > 0"] >>,
       quality_checks |-> << [type |-> "not_null", column |-> "email"] >>,
       name |-> "p2", framework |-> "prefect", source_type |-> "api",
       destination_type |-> "api", created_at |-> Instant(0)] }

---------------------------------------------------------------------------
(* The operations of DataOpsManager.  m is the instance, outcome how the   *)
(* save ends; call.save records how the save of the call ended ("none"     *)
(* when the call saved nothing).                                           *)

NotFound(pipeline_name) == [error |-> "Pipeline '" \o pipeline_name \o "' not found"]

\* DataOpsManager(config_path): a new instance bound to m
Construct(m) ==
    /\ ops < MaxOps
    /\ pipelines' = [pipelines EXCEPT ![m] = LoadConfigurations(file, now)]
    /\ call' = [op |-> "init", m |-> m]
    /\ ret' = None
    /\ ops' = ops + 1
    /\ UNCHANGED <<file, now, column, semantic>>

\* create_pipeline_from_data
CreatePipelineFromData(m, pipeline_name, req, outcome) ==
    /\ ops < MaxOps
    /\ ops' = ops + 1
    /\ call' = [op |-> "create", m |-> m, pipeline_name |-> pipeline_name,
                request |-> req,
                save |-> IF Loadable(req.data_source) THEN outcome ELSE "none"]
    /\ IF ~Loadable(req.data_source)
       THEN /\ outcome = "written"
            /\ ret' = [error |-> "Failed to load data"]
            /\ UNCHANGED <<pipelines, file>>
       ELSE LET pipeline_config == CreatePipelineConfig(pipeline_name, req, now)
                stored == Put(pipelines[m], pipeline_name, pipeline_config)
            IN  /\ pipelines' = [pipelines EXCEPT ![m] = stored]
                /\ file' = SaveConfigurations(stored, file, outcome)
                /\ ret' = [success |-> TRUE, pipeline_name |-> pipeline_name,
                           config |-> pipeline_config,
                           generated_code |-> GeneratedFiles(pipeline_config),
                           recommendations |->
                               AnalysisOf[req.data_source].recommendations]
    /\ UNCHANGED <<now, column, semantic>>

\* an update that assigns every key of 'updates' that names a field
ApplyEveryKey(config, updates) ==
    [f \in ConfigFields |-> IF f \in DOMAIN updates THEN updates[f] ELSE config[f]]

\* the assignments of update_pipeline to the config
ApplyUpdates(config, updates) ==
    [f \in ConfigFields |->
        IF f \in {"schedule", "transformations", "quality_checks"} /\ f \in DOMAIN updates
        THEN updates[f] ELSE config[f]]

\* update_pipeline
UpdatePipeline(m, pipeline_name, updates, outcome) ==
    /\ ops < MaxOps
    /\ ops' = ops + 1
    /\ call' = [op |-> "update", m |-> m, pipeline_name |-> pipeline_name,
                updates |-> updates,
                save |-> IF Has(pipelines[m], pipeline_name) THEN outcome ELSE "none"]
    /\ IF ~Has(pipelines[m], pipeline_name)
       THEN /\ outcome = "written"
            /\ ret' = NotFound(pipeline_name)
            /\ UNCHANGED <<pipelines, file>>
       ELSE LET config == ApplyUpdates(Get(pipelines[m], pipeline_name), updates)
                stored == Put(pipelines[m], pipeline_name, config)
            IN  /\ pipelines' = [pipelines EXCEPT ![m] = stored]
                /\ file' = SaveConfigurations(stored, file, outcome)
                /\ ret' = [success |-> TRUE, config |-> config]
    /\ UNCHANGED <<now, column, semantic>>

\* a delete that saves before it looks the name up
DeleteSavingFirst(m, pipeline_name, outcome) ==
    /\ ops < MaxOps
    /\ ops' = ops + 1
    /\ call' = [op |-> "delete", m |-> m, pipeline_name |-> pipeline_name,
                save |-> IF Has(pipelines[m], pipeline_name) THEN outcome ELSE "none"]
    /\ outcome = "written"
    /\ pipelines' = [pipelines EXCEPT ![m] = Del(pipelines[m], pipeline_name)]
    /\ file' = SaveConfigurations(Del(pipelines[m], pipeline_name), file, outcome)
    /\ ret' = IF Has(pipelines[m], pipeline_name) THEN [success |-> TRUE]
              ELSE NotFound(pipeline_name)
    /\ UNCHANGED <<now, column, semantic>>

\* delete_pipeline
DeletePipeline(m, pipeline_name, outcome) ==
    /\ ops < MaxOps
    /\ ops' = ops + 1
    /\ call' = [op |-> "delete", m |-> m, pipeline_name |-> pipeline_name,
                save |-> IF Has(pipelines[m], pipeline_name) THEN outcome ELSE "none"]
    /\ IF ~Has(pipelines[m], pipeline_name)
       THEN /\ outcome = "written"
            /\ ret' = NotFound(pipeline_name)
            /\ UNCHANGED <<pipelines, file>>
       ELSE LET stored == Del(pipelines[m], pipeline_name)
            IN  /\ pipelines' = [pipelines EXCEPT ![m] = stored]
                /\ file' = SaveConfigurations(stored, file, outcome)
                /\ ret' = [success |-> TRUE]
    /\ UNCHANGED <<now, column, semantic>>

\* get_pipeline_status
GetPipelineStatus(m, pipeline_name) ==
    /\ ops < MaxOps
    /\ ops' = ops + 1
    /\ call' = [op |-> "status", m |-> m, pipeline_name |-> pipeline_name]
    /\ ret' = IF ~Has(pipelines[m], pipeline_name) THEN NotFound(pipeline_name)
              ELSE LET config == Get(pipelines[m], pipeline_name)
                   IN  [name |-> config.name,
                        framework |-> config.framework,
                        schedule |-> config.schedule,
                        created_at |-> isoformat(config.created_at),
                        source_type |-> config.source_type,
                        destination_type |-> config.destination_type,
                        transformations_count |-> Len(config.transformations),
                        quality_checks_count |-> Len(config.quality_checks)]
    /\ UNCHANGED <<pipelines, file, now, column, semantic>>

\* validate_pipeline_data
ValidatePipelineData(m, pipeline_name, src) ==
    /\ ops < MaxOps
    /\ ops' = ops + 1
    /\ call' = [op |-> "validate", m |-> m, pipeline_name |-> pipeline_name]
    /\ ret' = IF ~Has(pipelines[m], pipeline_name) THEN NotFound(pipeline_name)
              ELSE IF src.df = None THEN [error |-> "Validation failed"]
              ELSE ValidateDataQuality(src.df,
                       Get(pipelines[m], pipeline_name).quality_checks)
    /\ UNCHANGED <<pipelines, file, now, column, semantic>>

\* time passes
Tick ==
    /\ now < MaxClock
    /\ now' = now + 1
    /\ UNCHANGED <<pipelines, file, call, ret, ops, column, semantic>>

NoColumn == [name |-> "", dtype |-> "object", cells |-> <<>>]

\* two instances constructed where no registry file exists yet
Init ==
    /\ file = FileAbsent
    /\ pipelines = [m \in Managers |-> LoadConfigurations(FileAbsent, 0)]
    /\ now = 0
    /\ call = [op |-> "none"]
    /\ ret = None
    /\ ops = 0
    /\ column = NoColumn
    /\ semantic = "unset"

Next ==
    \/ \E m \in Managers : Construct(m)
    \/ \E m \in Managers, n \in Names, req \in Requests, outcome \in SaveOutcomes :
            CreatePipelineFromData(m, n, req, outcome)
    \/ \E m \in Managers, n \in Names, u \in UpdateInputs, outcome \in SaveOutcomes :
            UpdatePipeline(m, n, u, outcome)
    \/ \E m \in Managers, n \in Names, outcome \in SaveOutcomes :
            DeletePipeline(m, n, outcome)
    \/ \E m \in Managers, n \in Names : GetPipelineStatus(m, n)
    \/ \E m \in Managers, n \in Names, src \in {SrcCustomers, SrcEvents, SrcMissing} :
            ValidatePipelineData(m, n, src)
    \/ Tick

Spec == Init /\ [][Next]_vars

---------------------------------------------------------------------------
(* What the properties below read off a step and a result.                 *)

\* the step is a call of one of 'operations' by m for pipeline_name
Calls(operations, m, pipeline_name) ==
    /\ ops' = ops + 1
    /\ call'.op \in operations
    /\ call'.m = m
    /\ call'.pipeline_name = pipeline_name

IsError(result) == "error" \in DOMAIN result
IsSuccess(result) == "success" \in DOMAIN result

FileNames(f) == IF f.kind = "json" THEN Keys(f.entries) ELSE {}

LookupOperations == {"delete", "update", "status", "validate"}
MutableFields == {"schedule", "transformations", "quality_checks"}

---------------------------------------------------------------------------
(* C1: delete, update, get_status and validate called with a name that is  *)
(* absent from the manager's registry return the 'not found' error value   *)
(* and leave every in-memory registry and the registry file as they were.  *)
C1_NotFoundChangesNothing ==
    [][ \A m \in Managers, n \in Names :
            (Calls(LookupOperations, m, n) /\ ~Has(pipelines[m], n))
                => /\ IsError(ret')
                   /\ ret' = [error |-> "Pipeline '" \o n \o "' not found"]
                   /\ pipelines' = pipelines
                   /\ file' = file ]_vars

\* a delete of an absent name has returned the error, where a save by that
\* manager would have rewritten the file
C1_Witness ==
    /\ call.op = "delete"
    /\ IsError(ret)
    /\ file.kind = "json"
    /\ file # SerializeConfigs(pipelines[call.m])

(* C2: update on an existing pipeline changes, of that pipeline, only the  *)
(* fields schedule, transformations and quality_checks that 'updates'      *)
(* names, whatever other keys it holds; every other entry of the           *)
(* manager's registry and every other manager's registry are unchanged.    *)
C2_UpdateFrame ==
    [][ \A m \in Managers, n \in Names :
            (Calls({"update"}, m, n) /\ Has(pipelines[m], n))
                => /\ Has(pipelines'[m], n)
                   /\ LET old == Get(pipelines[m], n)
                          new == Get(pipelines'[m], n)
                      IN  /\ \A f \in ConfigFields \ MutableFields : new[f] = old[f]
                          /\ \A f \in MutableFields :
                                new[f] = IF f \in DOMAIN call'.updates
                                         THEN call'.updates[f] ELSE old[f]
                   /\ Len(pipelines'[m]) = Len(pipelines[m])
                   /\ \A i \in 1..Len(pipelines[m]) :
                        pipelines[m][i][1] # n => pipelines'[m][i] = pipelines[m][i]
                   /\ \A other \in Managers \ {m} : pipelines'[other] = pipelines[other] ]_vars

\* an update that named foreign keys has succeeded on a registry of two
C2_Witness ==
    /\ call.op = "update"
    /\ IsSuccess(ret)
    /\ "framework" \in DOMAIN call.updates
    /\ Len(pipelines[call.m]) = 2
    /\ Get(pipelines[call.m], call.pipeline_name).framework # call.updates.framework


MutatingOperations == {"create", "update", "delete"}

\* the step is a call by m for pipeline_name that returned success and
\* whose save wrote the file
SavedBy(m, pipeline_name) ==
    /\ Calls(MutatingOperations, m, pipeline_name)
    /\ IsSuccess(ret')
    /\ call'.save = "written"

(* C3: once delete(name) has returned success, the entry is absent from    *)
(* the manager's registry and from the registry file, and update,          *)
(* get_status, validate and delete for that name succeed only while the    *)
(* manager holds an entry for it.                                          *)
C3_DeleteRemovesEntry ==
    [][ \A m \in Managers, n \in Names :
            /\ (Calls({"delete"}, m, n) /\ IsSuccess(ret'))
                  => (~Has(pipelines'[m], n) /\ n \notin FileNames(file'))
            /\ (Calls(LookupOperations, m, n) /\ ~IsError(ret'))
                  => Has(pipelines[m], n) ]_vars

C5_LastWriterWins ==
    [][ /\ \A m \in Managers, n \in Names :
              SavedBy(m, n)
                  => /\ file'.kind = "json"
                     /\ Len(file'.entries) = Len(pipelines'[m])
                     /\ \A i \in 1..Len(pipelines'[m]) :
                          /\ file'.entries[i][1] = pipelines'[m][i][1]
                          /\ file'.entries[i][2] = ConfigToJson(pipelines'[m][i][2])
        /\ file' # file
              => /\ ops' = ops + 1
                 /\ call'.op \in MutatingOperations
                 /\ call'.save \in {"written", "truncated"}
                 /\ call'.save = "truncated" => file' = FileGarbage ]_vars

\* the second of two managers has written: the file is its registry and
\* differs from the registry of the first, which is not empty
C5_Witness ==
    /\ call.op \in MutatingOperations
    /\ call.save = "written"
    /\ file = SerializeConfigs(pipelines[call.m])
    /\ \E other \in Managers \ {call.m} :
          /\ pipelines[other] # <<>>
          /\ Keys(pipelines[other]) \cap Keys(pipelines[call.m]) = {}
          /\ pipelines[call.m] # <<>>


(* C6: round trip: what _save_configurations writes for a registry loads,  *)
(* in a new manager, into a registry with the same names in the same       *)
(* order and equal PipelineConfigs, created_at the same instant.           *)
C6_RoundTrip ==
    \A m \in Managers :
        LET loaded == LoadConfigurations(SerializeConfigs(pipelines[m]), now)
        IN  /\ Len(loaded) = Len(pipelines[m])
            /\ \A i \in 1..Len(pipelines[m]) :
                  /\ loaded[i][1] = pipelines[m][i][1]
                  /\ \A f \in ConfigFields : loaded[i][2][f] = pipelines[m][i][2][f]

\* a new manager has loaded two entries, one created on a whole second and
\* one not, one of them updated since
C6_Witness ==
    /\ call.op = "init"
    /\ Len(pipelines[call.m]) = 2
    /\ \E i, j \in 1..2 :
          /\ pipelines[call.m][i][2].created_at.us = 0
          /\ pipelines[call.m][j][2].created_at.us # 0
    /\ file = SerializeConfigs(pipelines[call.m])

(* C8: a registry holds at most one entry per name; a successful create    *)
(* with a name that is present replaces that entry by the new config as a  *)
(* whole (its created_at and directives are those of the new config) and   *)
(* leaves the number of entries and the other entries as they were.        *)
C8_UniqueNameOverwrite ==
    [][ \A m \in Managers :
          /\ Cardinality(Keys(pipelines'[m])) = Len(pipelines'[m])
          /\ \A n \in Names :
                (Calls({"create"}, m, n) /\ IsSuccess(ret') /\ Has(pipelines[m], n))
                    => /\ Len(pipelines'[m]) = Len(pipelines[m])
                       /\ \A i \in 1..Len(pipelines[m]) :
                            IF pipelines[m][i][1] # n
                            THEN pipelines'[m][i] = pipelines[m][i]
                            ELSE /\ pipelines'[m][i][1] = n
                                 /\ pipelines'[m][i][2] = ret'.config
                                 /\ ret'.config.created_at = Instant(now)
                                 /\ ret'.config.framework = call'.request.framework
                                 /\ ret'.config.schedule = "@daily" ]_vars

\* a create at a later instant has replaced the first of two entries
C8_Witness ==
    /\ call.op = "create"
    /\ IsSuccess(ret)
    /\ Len(pipelines[call.m]) = 2
    /\ pipelines[call.m][1][1] = call.pipeline_name
    /\ now > 0
    /\ pipelines[call.m][1][2].created_at = Instant(now)

(* C9: create_pipeline_from_data with a path that ends neither in .csv nor *)
(* in .json, or with a source pandas cannot read, returns an error value,  *)
(* adds no entry and leaves the registry file unchanged.                   *)
C9_UnloadableSourceChangesNothing ==
    [][ \A m \in Managers, n \in Names :
            ( /\ Calls({"create"}, m, n)
              /\ LET src == call'.request.data_source
                 IN  \/ ~(EndsWith(src.path, ".csv") \/ EndsWith(src.path, ".json"))
                     \/ src.df = None )
                => /\ IsError(ret')
                   /\ ~IsSuccess(ret')
                   /\ pipelines' = pipelines
                   /\ file' = file ]_vars

\* a create from a readable file of another format has been refused while
\* the registry held an entry
C9_Witness ==
    /\ call.op = "create"
    /\ IsError(ret)
    /\ call.request.data_source = SrcText
    /\ pipelines[call.m] # <<>>
    /\ file.kind = "json"

---------------------------------------------------------------------------
(* Loading registry files that the manager did not write itself.           *)

MaxEntries == 2

Restrict(r, fields) == [f \in fields |-> r[f]]
Extend(r, field, v) == [f \in DOMAIN r \cup {field} |-> IF f = field THEN v ELSE r[f]]

\* the member a save writes for a pipeline of that name
SavedEntry(n) ==
    ConfigToJson(PipelineConfig(
        KeywordsOf[CHOOSE r \in Requests : r.data_source = SrcCustomers, n], 0))

\* that member as written, without a field, with a field too many, or with
\* a created_at that is no date
EntryVariants(n) ==
    { SavedEntry(n),
      Restrict(SavedEntry(n), ConfigFields \ {"created_at"}),
      Restrict(SavedEntry(n), ConfigFields \ {"framework"}),
      Restrict(SavedEntry(n), ConfigFields \ {"schedule"}),
      Extend(SavedEntry(n), "owner", "ops"),
      [SavedEntry(n) EXCEPT !.created_at = "yesterday"] }

TestEntries == UNION {{<<n, data>> : data \in EntryVariants(n)} : n \in Names}

TestFiles ==
    {FileAbsent, FileGarbage}
        \cup { FileJson(entries) :
                 entries \in { e \in UNION {[1..k -> TestEntries] : k \in 0..MaxEntries} :
                                 \A i, j \in 1..Len(e) : i # j => e[i][1] # e[j][1] } }

InitLoad ==
    /\ file \in TestFiles
    /\ pipelines = [m \in Managers |-> <<>>]
    /\ now = 0
    /\ call = [op |-> "none"]
    /\ ret = None
    /\ ops = 0
    /\ column = NoColumn
    /\ semantic = "unset"

NextLoad ==
    \/ \E m \in Managers : Construct(m)
    \/ Tick

SpecLoad == InitLoad /\ [][NextLoad]_vars

\* json.load rejects the file, or PipelineConfig or fromisoformat rejects
\* one of its members
BrokenEntry(data) ==
    \/ "created_at" \in DOMAIN data /\ ~IsIsoText(data.created_at)
    \/ ~(RequiredFields \subseteq DOMAIN data /\ DOMAIN data \subseteq ConfigFields)

Malformed(f) ==
    \/ f.kind = "garbage"
    \/ f.kind = "json" /\ \E i \in 1..Len(f.entries) : BrokenEntry(f.entries[i][2])

(* C7: when the registry file is unparseable, or one of its entries cannot *)
(* be turned into a PipelineConfig, constructing a manager does not fail   *)
(* and the manager's registry is empty afterwards.                         *)
C7_MalformedFileLoadsNothing ==
    (call.op = "init" /\ Malformed(file)) => pipelines[call.m] = <<>>

---------------------------------------------------------------------------
(* Classifying one column.                                                 *)

MaxCells == 2
MaxFill == 11

ColumnNames ==
    {"id", "email", "Customer_ID", "paid_amount", "price", "city_key",
     "zip", "notes", "UUID", "state_cost", "salary", "phone"}

SampleCells ==
    {StrCell("a@b.co"), StrCell("202-555-0123"), StrCell("2024-01-01T10:00"),
     StrCell("n/a"), IntCell(2025550123), NullCell}

Repeat(cell, k) == [i \in 1..k |-> cell]

\* short columns of every mix, and columns whose one telling value comes
\* after k plain or null ones
TestCells ==
    UNION {[1..k -> SampleCells] : k \in 0..MaxCells}
        \cup { Repeat(fill, k) \o <<cell>> :
                 fill \in {StrCell("n/a"), NullCell}, k \in (SampleLimit - 1)..MaxFill,
                 cell \in SampleCells \ {NullCell} }

InitClassify ==
    /\ column \in [name : ColumnNames, dtype : {"object"}, cells : TestCells]
    /\ semantic = "unset"
    /\ file = FileAbsent
    /\ pipelines = [m \in Managers |-> <<>>]
    /\ now = 0
    /\ call = [op |-> "none"]
    /\ ret = None
    /\ ops = 0

\* the body of the loop of _infer_column_types
ClassifyColumn ==
    /\ semantic = "unset"
    /\ semantic' = InferColumnType(column)
    /\ UNCHANGED <<pipelines, file, now, call, ret, ops, column>>

NextClassify == ClassifyColumn

SpecClassify == InitClassify /\ [][NextClassify]_vars

(* C10: the label is that of the first rule that matches, in the order     *)
(* email, phone, date on one of the first 10 non-null stringified values,  *)
(* then identifier, currency, geographic keyword in the lower-cased name,  *)
(* and 'generic' when none matches; nothing else is read.                  *)
C10_FirstMatchWins ==
    semantic # "unset" =>
        LET samples == Take(DropnaAsStr(column.cells), 10)
            name == Lower(column.name)
            email == \E i \in 1..Len(samples) : MatchesEmail(samples[i])
            phone == \E i \in 1..Len(samples) : MatchesPhone(samples[i])
            date == \E i \in 1..Len(samples) : MatchesDate(samples[i])
            ident == \E k \in {"id", "key", "uuid"} : Contains(name, k)
            money == \E k \in {"price", "cost", "amount", "salary"} : Contains(name, k)
            geo == \E k \in {"address", "city", "state", "country", "zip"} : Contains(name, k)
        IN  /\ semantic = "email" <=> email
            /\ semantic = "phone" <=> ~email /\ phone
            /\ semantic = "date" <=> ~email /\ ~phone /\ date
            /\ semantic = "identifier" <=> ~email /\ ~phone /\ ~date /\ ident
            /\ semantic = "currency" <=> ~email /\ ~phone /\ ~date /\ ~ident /\ money
            /\ semantic = "geographic"
                  <=> ~email /\ ~phone /\ ~date /\ ~ident /\ ~money /\ geo
            /\ semantic = "generic"
                  <=> ~email /\ ~phone /\ ~date /\ ~ident /\ ~money /\ ~geo

\* an email after a phone number and a date in a column whose name holds
\* two keywords: four rules match and the first one gives the label
C10_Witness ==
    /\ semantic = "email"
    /\ column.name = "state_cost"
    /\ column.cells = <<IntCell(2025550123), StrCell("a@b.co")>>

---------------------------------------------------------------------------
(* Analysing a frame and synthesising the directives from the analysis:    *)
(* steps 2 and 3 of create_pipeline_from_data, on frames of many shapes.   *)

MaxColumns == 2

Strs(texts) == [i \in 1..Len(texts) |-> StrCell(texts[i])]
Ints(numbers) == [i \in 1..Len(numbers) |-> IntCell(numbers[i])]
Column(name, dtype, cells) == [name |-> name, dtype |-> dtype, cells |-> cells]

\* columns of five rows that differ in name, type, nulls and duplicates
TextColumns ==
    { Column("email", "object",
          <<StrCell("a@b.co"), NullCell, StrCell("c@d.org"), StrCell("e@f.net"),
            StrCell("g@h.io")>>),
      Column("contact", "object",
          <<StrCell("a@b.co"), NullCell, StrCell("c@d.org"), NullCell, StrCell("e@f.net")>>),
      Column("null percentage", "object",
          Strs(<<"a@b.co", "c@d.org", "e@f.net", "g@h.io", "i@j.se">>)),
      Column("duplicate_id", "object", Strs(<<"a1", "a2", "a3", "a4", "a5">>)),
      Column("it's", "object",
          <<StrCell("x"), NullCell, StrCell("y"), NullCell, StrCell("z")>>),
      Column("created", "object",
          Strs(<<"2024-01-01", "2024-01-02", "2024-01-03", "2024-01-04", "2024-01-05">>)),
      Column("duplicate_date", "object",
          Strs(<<"01/01/2024", "02/01/2024", "03/01/2024", "04/01/2024", "05/01/2024">>)),
      Column("city", "object", Strs(<<"Rome", "Rome", "Oslo", "Rome", "Oslo">>)),
      Column("notes", "object", Strs(<<"n/a", "ok", "late", "paid", "void">>)) }

NumberColumns ==
    { Column("customer_id", "int64", Ints(<<1001, 1002, 1003, 1004, 1005>>)),
      Column("amount", "float64",
          <<IntCell(5), NullCell, NullCell, IntCell(7), IntCell(5)>>),
      Column("score", "int64", Ints(<<3, 1, 4, 1, 5>>)),
      Column("weight", "int64", Ints(<<60, 20, 85, 20, 90>>)) }

\* what corr() may answer for a pair of columns
CorrValues == {Corr(85), Corr(71), Corr(70), Corr(-90), Corr(0), NaN}

\* the matrices corr() may answer for n columns: symmetric, the diagonal 1
CorrMatrices(n) ==
    LET pairs == {pr \in (1..n) \X (1..n) : pr[1] < pr[2]}
    IN  { [i \in 1..n |-> [j \in 1..n |->
              IF i = j THEN Corr(100)
              ELSE IF i < j THEN upper[<<i, j>>] ELSE upper[<<j, i>>]]] :
            upper \in [pairs -> CorrValues] }

\* what KMeans and IsolationForest may answer; None when they raise
ClusterAnswers == {None, [sizes |-> <<2, 1, 1, 1>>]}
OutlierAnswers == {None, [count |-> 0], [count |-> 1], [count |-> 2]}

Frame(columns, corr_matrix, clusters, outliers) ==
    [columns |-> columns, corr_matrix |-> corr_matrix,
     clusters |-> clusters, outliers |-> outliers]

\* the frames with these columns, one for each answer of the libraries
FramesOver(columns) ==
    { Frame(columns, mat, clusters, outliers) :
        mat \in CorrMatrices(Len(SelectSeq(columns, IsNumeric))),
        clusters \in ClusterAnswers,
        outliers \in IF Len(columns[1].cells) > MinAnomalyRows
                     THEN OutlierAnswers ELSE {None} }

\* up to MaxColumns columns of five rows, with distinct names
ShortFrames ==
    UNION { FramesOver(columns) :
              columns \in { c \in UNION {[1..k -> TextColumns \cup NumberColumns] :
                                            k \in 1..MaxColumns} :
                              \A i, j \in 1..Len(c) : i # j => c[i].name # c[j].name } }

\* the three numeric columns together
NumericFrames ==
    FramesOver(<< Column("amount", "float64",
                      <<IntCell(5), NullCell, NullCell, IntCell(7), IntCell(5)>>),
                  Column("score", "int64", Ints(<<3, 1, 4, 1, 5>>)),
                  Column("weight", "int64", Ints(<<60, 20, 85, 20, 90>>)) >>)

\* one numeric column of 10, 11, 20 or 21 rows beside a text column with no,
\* one or two repeated values
LongFrames ==
    UNION { FramesOver(<< Column("score", "int64", Repeat(IntCell(7), rows)),
                          Column("tag", "object",
                              [i \in 1..rows |->
                                  StrCell(IF i <= 1 + repeated THEN "t0"
                                          ELSE "t" \o IntToStr(i))]) >>) :
              rows \in {10, 11, 20, 21}, repeated \in {0, 1, 2} }

\* frames without rows: read from a file that holds a header only
EmptyFrames ==
    FramesOver(<<Column("email", "object", <<>>)>>)
        \cup FramesOver(<<Column("score", "int64", <<>>), Column("city", "object", <<>>)>>)

TestFrames == ShortFrames \cup NumericFrames \cup LongFrames \cup EmptyFrames

\* steps 2 and 3 of create_pipeline_from_data on the frame that step 1 read
AnalyzeAndConfigure(df) ==
    /\ call.op = "none"
    /\ call' = [op |-> "analyze", df |-> df]
    /\ ret' = LET analysis == AnalyzeDataPatterns(df)
              IN  [analysis |-> analysis,
                   config |-> ConfigKeywords("p1", "data.csv", analysis, "airflow",
                                  DefaultDestination)]
    /\ ops' = ops + 1
    /\ UNCHANGED <<pipelines, file, now, column, semantic>>

NextAnalyze == \E df \in TestFrames : AnalyzeAndConfigure(df)

SpecAnalyze == Init /\ [][NextAnalyze]_vars

---------------------------------------------------------------------------
(* What the properties below read off an analysed frame.                   *)

Analysed == call.op = "analyze"
ColumnIndexes == 1..Len(call.df.columns)
ColumnName(i) == call.df.columns[i].name
MetricsOf(i) == ret.analysis.data_quality[i][2]
TypeOf(i) == ret.analysis.column_types[i][2]

\* the fill_nulls directives of the synthesised config that name column C
FillNullsFor(C) ==
    SelectSeq(ret.config.transformations,
              LAMBDA t : t.type = "fill_nulls" /\ t.column = C)

RemoveDuplicates ==
    SelectSeq(ret.config.transformations, LAMBDA t : t.type = "remove_duplicates")

(* C11: for every column C of an analysis, whatever its name and type: if  *)
(* null_percentage(C) > 20 the transform directives hold exactly one       *)
(* fill_nulls directive for C, with method median, and if it is <= 20 they *)
(* hold no fill_nulls directive for C.                                     *)
C11_FillNullsIffHighNulls ==
    Analysed =>
        \A i \in ColumnIndexes :
            IF Above(MetricsOf(i).null_percentage, 20)
            THEN /\ Len(FillNullsFor(ColumnName(i))) = 1
                 /\ FillNullsFor(ColumnName(i))[1].method = "median"
            ELSE FillNullsFor(ColumnName(i)) = <<>>

\* the columns whose type asks for a check, in column order
CheckedColumns ==
    SelectSeq([i \in ColumnIndexes |-> i],
              LAMBDA i : TypeOf(i) \in {"email", "identifier"})

(* C12: the quality-check directives are, in the order of the columns in   *)
(* the analysis, one email_validation check for each column of type email  *)
(* and one unique check for each column of type identifier, and nothing    *)
(* else.                                                                   *)
C12_ChecksFollowColumnTypes ==
    Analysed =>
        /\ \A i \in ColumnIndexes : ret.analysis.column_types[i][1] = ColumnName(i)
        /\ Len(ret.config.quality_checks) = Len(CheckedColumns)
        /\ \A k \in 1..Len(CheckedColumns) :
              ret.config.quality_checks[k]
                  = [type |-> IF TypeOf(CheckedColumns[k]) = "email"
                              THEN "email_validation" ELSE "unique",
                     column |-> ColumnName(CheckedColumns[k])]

\* an identifier column before an email column: two checks in that order
C12_Witness ==
    /\ Analysed
    /\ ret.config.quality_checks
          = << [type |-> "unique", column |-> "customer_id"],
               [type |-> "email_validation", column |-> "email"] >>

\* the findings of the analysis that ask for a directive
HighNulls(i) == Above(MetricsOf(i).null_percentage, 20)
HighDuplicates(i) ==
    /\ "duplicate_percentage" \in DOMAIN MetricsOf(i)
    /\ Above(MetricsOf(i).duplicate_percentage, 10)
AsksForDirective(i) ==
    HighNulls(i) \/ HighDuplicates(i) \/ TypeOf(i) \in {"email", "identifier"}

\* the findings that are advisory only
DateColumns == {i \in ColumnIndexes : TypeOf(i) = "date"}
StrongPairs ==
    IF "strong_correlations" \in DOMAIN ret.analysis.correlations
    THEN ret.analysis.correlations.strong_correlations ELSE <<>>
HighAnomalies ==
    /\ "numeric_anomalies" \in DOMAIN ret.analysis.anomalies
    /\ "percentage" \in DOMAIN ret.analysis.anomalies.numeric_anomalies
    /\ Above(ret.analysis.anomalies.numeric_anomalies.percentage, 5)

(* C13: a date column, a strong correlation between two columns and an    *)
(* anomaly percentage above 5 each add a recommendation and no directive,  *)
(* whatever the columns are called: an analysis whose findings are all of  *)
(* these kinds has as many recommendations as findings, and neither a      *)
(* transform directive nor a quality-check directive.                      *)
C13_AdvisoryFindingsGiveNoDirective ==
    (Analysed /\ \A i \in ColumnIndexes : ~AsksForDirective(i)) =>
        /\ Len(ret.analysis.recommendations)
              = Cardinality(DateColumns) + Len(StrongPairs)
                  + (IF HighAnomalies THEN 1 ELSE 0)
        /\ ret.config.transformations = <<>>
        /\ ret.config.quality_checks = <<>>

(* C14: the transform directives hold a remove_duplicates directive if and *)
(* only if some column of the analysis has duplicate_percentage > 10; a    *)
(* column with a lower percentage, or without the metric, causes none.     *)
C14_RemoveDuplicatesIffHighDuplicates ==
    Analysed =>
        (RemoveDuplicates # <<>> <=> \E i \in ColumnIndexes : HighDuplicates(i))

(* C15: for every column profile over a dataset with at least one row,     *)
(* completeness + null_percentage / 100 = 1.  Both metrics are fractions   *)
(* num / den here, so the equation is stated cross-multiplied.             *)
C15_CompletenessComplementsNulls ==
    (Analysed /\ NumRows(call.df) > 0) =>
        \A i \in ColumnIndexes :
            LET completeness == MetricsOf(i).completeness
                null_percentage == MetricsOf(i).null_percentage
            IN  100 * completeness.num * null_percentage.den
                    + null_percentage.num * completeness.den
                  = 100 * completeness.den * null_percentage.den

NumericNames ==
    LET numeric == SelectSeq(call.df.columns, IsNumeric)
    IN  [i \in 1..Len(numeric) |-> numeric[i].name]

\* the value corr() gave for the pair of numeric columns named a and b
MatrixValue(a, b) ==
    LET i == CHOOSE k \in 1..Len(NumericNames) : NumericNames[k] = a
        j == CHOOSE k \in 1..Len(NumericNames) : NumericNames[k] = b
    IN  call.df.corr_matrix[i][j]

Reported(a, b) ==
    \E k \in 1..Len(StrongPairs) :
        {StrongPairs[k].column1, StrongPairs[k].column2} = {a, b}

(* C16: with two numeric columns or more, the strong-pair list holds each  *)
(* unordered pair of distinct numeric columns at most once, every pair in  *)
(* it has |correlation| > 0.7, and every pair whose matrix value has       *)
(* |correlation| > 0.7 is in it; a pair at exactly 0.7 is not.             *)
C16_StrongPairsOnceAndStrict ==
    (Analysed /\ Len(NumericNames) >= 2) =>
        /\ "strong_correlations" \in DOMAIN ret.analysis.correlations
        /\ \A k \in 1..Len(StrongPairs) :
              LET pair == StrongPairs[k]
              IN  /\ pair.column1 # pair.column2
                  /\ {pair.column1, pair.column2}
                        \subseteq {NumericNames[i] : i \in 1..Len(NumericNames)}
                  /\ MatrixValue(pair.column1, pair.column2) = Corr(pair.correlation)
                  /\ pair.correlation > 70 \/ pair.correlation < -70
                  /\ \A l \in 1..Len(StrongPairs) :
                        {StrongPairs[l].column1, StrongPairs[l].column2}
                            = {pair.column1, pair.column2} => l = k
        /\ \A i, j \in 1..Len(NumericNames) :
              LET value == call.df.corr_matrix[i][j]
              IN  (i # j /\ value.kind = "float" /\ (value.h > 70 \/ value.h < -70))
                      => Reported(NumericNames[i], NumericNames[j])

\* three numeric columns: two pairs are strong, one positive and one
\* negative, and the third pair, at 0.7 exactly, is left out
C16_Witness ==
    /\ Analysed
    /\ Len(NumericNames) = 3
    /\ Len(StrongPairs) = 2
    /\ \E k, l \in 1..2 : StrongPairs[k].correlation = 85 /\ StrongPairs[l].correlation = -90
    /\ \E i, j \in 1..3 : call.df.corr_matrix[i][j] = Corr(70)

\* the cases in which the two steps have nothing to compute, or fail
NothingToAnalyse == Len(NumericNames) = 0 \/ NumRows(call.df) = 0
ClusteringFails == ~NothingToAnalyse /\ call.df.clusters = None
DetectionFails ==
    ~NothingToAnalyse /\ NumRows(call.df) > MinAnomalyRows /\ call.df.outliers = None

HasMarker(report, step) == step \in DOMAIN report /\ "error" \in DOMAIN report[step]

(* C17: clustering and anomaly detection each return an explicit error     *)
(* marker when the dataset has no numeric column, when it has no row, and  *)
(* when the computation fails; a result without a marker and without       *)
(* counts is never returned in those cases.                                *)
C17_DegradedStepsReturnMarker ==
    Analysed =>
        /\ (NothingToAnalyse \/ ClusteringFails)
              => HasMarker(ret.analysis.patterns, "clusters")
        /\ (NothingToAnalyse \/ DetectionFails)
              => HasMarker(ret.analysis.anomalies, "numeric_anomalies")

---------------------------------------------------------------------------
(* PipelineGenerator.  A text is the sequence of its lines (what the code  *)
(* joins with '\n'); an artifact rendered from a template is the record of *)
(* the template's name and of the values format() puts in its fields.      *)

\* str.replace(old, new) for one character
RECURSIVE ReplaceChar(_, _, _)
ReplaceChar(s, old, new) ==
    IF s = "" THEN ""
    ELSE (IF Ch(s, 1) = old THEN new ELSE Ch(s, 1))
         \o ReplaceChar(SubSeq(s, 2, Len(s)), old, new)

\* dict.get(key, default)
GetOr(d, key, default) == IF key \in DOMAIN d THEN d[key] ELSE default

\* the concatenation of the line lists that a loop appends
RECURSIVE Flatten(_)
Flatten(blocks) == IF blocks = <<>> THEN <<>> ELSE blocks[1] \o Flatten(Tail(blocks))

\* the two lines a recommendation adds to the transformation snippet
RecommendedSteps(recommendation) ==
    IF Contains(Lower(recommendation), "null percentage")
    THEN LET column_name == IF Contains(recommendation, "'")
                            THEN SplitQuoteSecond(recommendation)
                            ELSE "unknown_column"
         IN  << "# Handle nulls in " \o column_name,
                "df['" \o column_name \o "'] = df['" \o column_name
                    \o "'].fillna(df['" \o column_name \o "'].median())" >>
    ELSE IF Contains(Lower(recommendation), "duplicate percentage")
    THEN << "# Remove duplicates", "df = df.drop_duplicates()" >>
    ELSE <<>>

\* the two lines a directive of the config adds to it
TransformationSteps(transformation) ==
    IF transformation.type = "filter"
    THEN << "# Filter: " \o transformation.condition,
            "df = df.query('" \o transformation.condition \o "')" >>
    ELSE IF transformation.type = "aggregate"
    THEN << "# Aggregate by " \o transformation.group_by,
            "df = df.groupby('" \o transformation.group_by \o "').agg("
                \o transformation.aggregations \o ")" >>
    ELSE <<>>

\* _generate_transform_code
GenerateTransformCode(transformations, analysis) ==
    LET recommendations == GetOr(analysis, "recommendations", <<>>)
        steps ==
            Flatten([i \in 1..Len(recommendations) |-> RecommendedSteps(recommendations[i])])
            \o Flatten([i \in 1..Len(transformations) |->
                           TransformationSteps(transformations[i])])
    IN  << "# Start with the extracted data",
           "df = context[\"task_instance\"].xcom_pull(task_ids=\"extract_data\")" >>
        \o (IF steps = <<>>
            THEN << "# No specific transformations needed based on AI analysis" >>
            ELSE steps)
        \o << "logging.info(f\"Transformed data: {{len(df)}} rows\")", "return df" >>

\* the lines the type of a column adds to the validation snippet
ColumnTypeSteps(column_name, col_type) ==
    IF col_type = "email"
    THEN << "# Validate email format in " \o column_name,
            "email_valid = df['" \o column_name \o "'].str.contains('@', na=False)",
            "if not email_valid.all():",
            "    logging.warning(f'Found {(~email_valid).sum()} invalid emails in "
                \o column_name \o "')" >>
    ELSE IF col_type = "identifier"
    THEN << "# Check for unique identifiers in " \o column_name,
            "if df['" \o column_name \o "'].nunique() != len(df):",
            "    logging.warning(f'Non-unique identifiers found in " \o column_name \o "')" >>
    ELSE <<>>

\* the lines a check of the config adds to it; a bound is written with str()
CheckSteps(check) ==
    IF check.type = "not_null"
    THEN << "# Check for nulls in " \o check.column,
            "null_count = df['" \o check.column \o "'].isnull().sum()",
            "if null_count > 0:",
            "    raise ValueError(f'Found {null_count} null values in "
                \o check.column \o "')" >>
    ELSE IF check.type = "range"
    THEN << "# Validate range for " \o check.column,
            "out_of_range = df[(df['" \o check.column \o "'] < " \o IntToStr(check.min)
                \o ") | (df['" \o check.column \o "'] > " \o IntToStr(check.max)
                \o ")].shape[0]",
            "if out_of_range > 0:",
            "    raise ValueError(f'Found {out_of_range} values out of range in "
                \o check.column \o "')" >>
    ELSE <<>>

\* _generate_validation_code
GenerateValidationCode(quality_checks, analysis) ==
    LET column_types == GetOr(analysis, "column_types", <<>>)
        steps ==
            Flatten([i \in 1..Len(column_types) |->
                        ColumnTypeSteps(column_types[i][1], column_types[i][2])])
            \o Flatten([i \in 1..Len(quality_checks) |-> CheckSteps(quality_checks[i])])
    IN  << "# Start with the transformed data",
           "df = context[\"task_instance\"].xcom_pull(task_ids=\"transform_data\")" >>
        \o (IF steps = <<>> THEN << "# No specific validations configured" >> ELSE steps)
        \o << "logging.info('Data validation completed successfully')", "return df" >>

BaseRequirements ==
    << "pandas>=1.3.0", "numpy>=1.21.0", "scikit-learn>=1.0.0", "pyyaml>=6.0",
       "requests>=2.28.0" >>

\* requirements chosen by the framework name as it is written
GenerateRequirementsExactCase(framework) ==
    BaseRequirements
        \o (IF framework = "airflow"
            THEN << "apache-airflow>=2.5.0", "psycopg2-binary>=2.9.0" >>
            ELSE IF framework = "prefect" THEN << "prefect>=2.0.0" >>
            ELSE IF framework = "dbt" THEN << "dbt-core>=1.0.0", "dbt-postgres>=1.0.0" >>
            ELSE <<>>)

\* _generate_requirements
GenerateRequirements(framework) ==
    BaseRequirements
        \o (IF Lower(framework) = "airflow"
            THEN << "apache-airflow>=2.5.0", "psycopg2-binary>=2.9.0" >>
            ELSE IF Lower(framework) = "prefect" THEN << "prefect>=2.0.0" >>
            ELSE IF Lower(framework) = "dbt"
            THEN << "dbt-core>=1.0.0", "dbt-postgres>=1.0.0" >>
            ELSE <<>>)

\* _generate_extract_code
GenerateExtractCode(source_type, source_config) ==
    IF Lower(source_type) = "postgresql"
    THEN << "import psycopg2", "import pandas as pd", "",
            "conn = psycopg2.connect(",
            "    host=\"" \o GetOr(source_config, "host", "localhost") \o "\",",
            "    database=\"" \o GetOr(source_config, "database", "") \o "\",",
            "    user=\"" \o GetOr(source_config, "user", "") \o "\",",
            "    password=\"" \o GetOr(source_config, "password", "") \o "\"",
            ")", "",
            "query = \"" \o GetOr(source_config, "query", "SELECT * FROM table") \o "\"",
            "df = pd.read_sql(query, conn)", "conn.close()",
            "logging.info(f\"Extracted {len(df)} rows from PostgreSQL\")", "return df" >>
    ELSE IF Lower(source_type) = "csv"
    THEN << "import pandas as pd", "",
            "df = pd.read_csv(\"" \o GetOr(source_config, "file_path", "") \o "\")",
            "logging.info(f\"Extracted {len(df)} rows from CSV\")", "return df" >>
    ELSE IF Lower(source_type) = "api"
    THEN << "import requests", "import pandas as pd", "",
            "response = requests.get(\"" \o GetOr(source_config, "url", "") \o "\")",
            "data = response.json()", "df = pd.DataFrame(data)",
            "logging.info(f\"Extracted {len(df)} rows from API\")", "return df" >>
    ELSE << "# Add your custom extraction logic here",
            "df = pd.DataFrame()  # placeholder", "return df" >>

\* _generate_load_code
GenerateLoadCode(dest_type, dest_config) ==
    IF Lower(dest_type) = "postgresql"
    THEN << "from sqlalchemy import create_engine", "",
            "df = context[\"task_instance\"].xcom_pull(task_ids=\"validate_data\")",
            "engine = create_engine('postgresql://" \o GetOr(dest_config, "user", "")
                \o ":" \o GetOr(dest_config, "password", "")
                \o "@" \o GetOr(dest_config, "host", "localhost")
                \o "/" \o GetOr(dest_config, "database", "") \o "')",
            "df.to_sql('" \o GetOr(dest_config, "table", "processed_data")
                \o "', engine, if_exists='replace', index=False)",
            "logging.info(f\"Loaded {len(df)} rows to PostgreSQL\")" >>
    ELSE IF Lower(dest_type) = "csv"
    THEN << "df = context[\"task_instance\"].xcom_pull(task_ids=\"validate_data\")",
            "df.to_csv('" \o GetOr(dest_config, "file_path", "output.csv")
                \o "', index=False)",
            "logging.info(f\"Loaded {len(df)} rows to CSV\")" >>
    ELSE << "# Add your custom load logic here",
            "df = context[\"task_instance\"].xcom_pull(task_ids=\"validate_data\")",
            "logging.info(f\"Custom load logic for {{len(df)}} rows\")" >>

\* line.strip() == ''
IsBlank(line) == \A i \in 1..Len(line) : Ch(line, i) \in Whitespace

\* code.strip().split('\n'): the blank lines at both ends go, and so does
\* the white space before the first line and after the last
RECURSIVE StripLines(_)
StripLines(code) ==
    IF code = <<>> THEN <<"">>
    ELSE IF IsBlank(code[1]) THEN StripLines(Tail(code))
    ELSE IF IsBlank(code[Len(code)]) THEN StripLines(SubSeq(code, 1, Len(code) - 1))
    ELSE IF Len(code) = 1 THEN << RStrip(LStrip(code[1])) >>
    ELSE << LStrip(code[1]) >> \o SubSeq(code, 2, Len(code) - 1)
         \o << RStrip(code[Len(code)]) >>

\* ' ' * n
RECURSIVE Spaces(_)
Spaces(n) == IF n = 0 THEN "" ELSE " " \o Spaces(n - 1)

\* _indent_code
IndentCode(code, spaces) ==
    LET lines == StripLines(code)
    IN  [i \in 1..Len(lines) |->
            IF IsBlank(lines[i]) THEN lines[i] ELSE Spaces(spaces) \o lines[i]]

\* config.name.replace(' ', '_').replace('-', '_').lower()
CleanName(name) == Lower(ReplaceChar(ReplaceChar(name, " ", "_"), "-", "_"))

\* templates['airflow_dag'], line by line
AirflowDagTemplate ==
    << "from airflow import DAG",
       "from airflow.operators.python_operator import PythonOperator",
       "from airflow.operators.bash_operator import BashOperator",
       "from datetime import datetime, timedelta",
       "import pandas as pd",
       "import logging",
       "",
       "default_args = {{",
       "    'owner': 'dataops-ai',",
       "    'depends_on_past': False,",
       "    'start_date': datetime(2024, 1, 1),",
       "    'email_on_failure': True,",
       "    'email_on_retry': False,",
       "    'retries': 1,",
       "    'retry_delay': timedelta(minutes=5),",
       "}}",
       "",
       "dag = DAG(",
       "    '{pipeline_name}',",
       "    default_args=default_args,",
       "    description='{description}',",
       "    schedule_interval='{schedule}',",
       "    catchup=False,",
       "    tags=['ai-generated', 'dataops'],",
       ")",
       "",
       "def extract_data(**context):",
       "    \"\"\"Extract data from source\"\"\"",
       "    {extract_code}",
       "",
       "def transform_data(**context):",
       "    \"\"\"Transform data using AI recommendations\"\"\"",
       "    {transform_code}",
       "",
       "def validate_data(**context):",
       "    \"\"\"Validate data quality\"\"\"",
       "    {validation_code}",
       "",
       "def load_data(**context):",
       "    \"\"\"Load data to destination\"\"\"",
       "    {load_code}",
       "",
       "# Define tasks",
       "extract_task = PythonOperator(",
       "    task_id='extract_data',",
       "    python_callable=extract_data,",
       "    dag=dag,",
       ")",
       "",
       "transform_task = PythonOperator(",
       "    task_id='transform_data',",
       "    python_callable=transform_data,",
       "    dag=dag,",
       ")",
       "",
       "validate_task = PythonOperator(",
       "    task_id='validate_data',",
       "    python_callable=validate_data,",
       "    dag=dag,",
       ")",
       "",
       "load_task = PythonOperator(",
       "    task_id='load_data',",
       "    python_callable=load_data,",
       "    dag=dag,",
       ")",
       "",
       "# Set task dependencies",
       "extract_task >> transform_task >> validate_task >> load_task",
       "" >>

\* templates['dbt_model'], line by line
DbtModelTemplate ==
    << "-- AI-Generated dbt model for {pipeline_name}",
       "-- Generated on: {timestamp}",
       "",
       "{{{{ config(",
       "    materialized='table',",
       "    tags=['ai-generated', 'dataops']",
       ") }}}}",
       "",
       "WITH source_data AS (",
       "    SELECT *",
       "    FROM {{{{ source('{source_schema}', '{source_table}') }}}}",
       "),",
       "",
       "cleaned_data AS (",
       "    SELECT",
       "        {select_columns}",
       "    FROM source_data",
       "    WHERE {where_conditions}",
       "),",
       "",
       "transformed_data AS (",
       "    SELECT",
       "        *,",
       "        {transformations}",
       "    FROM cleaned_data",
       ")",
       "",
       "SELECT * FROM transformed_data",
       "",
       "-- Data quality tests will be generated separately",
       "" >>

\* templates['prefect_flow'], line by line
PrefectFlowTemplate ==
    << "from prefect import flow, task",
       "import pandas as pd",
       "from datetime import datetime",
       "import logging",
       "",
       "@task(name=\"extract_data\")",
       "def extract_data():",
       "    \"\"\"Extract data from source\"\"\"",
       "    {extract_code}",
       "",
       "@task(name=\"transform_data\")",
       "def transform_data(data):",
       "    \"\"\"Transform data using AI recommendations\"\"\"",
       "    {transform_code}",
       "",
       "@task(name=\"validate_data\")",
       "def validate_data(data):",
       "    \"\"\"Validate data quality\"\"\"",
       "    {validation_code}",
       "",
       "@task(name=\"load_data\")",
       "def load_data(data):",
       "    \"\"\"Load data to destination\"\"\"",
       "    {load_code}",
       "",
       "@flow(name=\"{pipeline_name}\")",
       "def {pipeline_name_clean}_flow():",
       "    \"\"\"AI-generated Prefect flow for {description}\"\"\"",
       "    ",
       "    # Extract",
       "    raw_data = extract_data()",
       "    ",
       "    # Transform",
       "    transformed_data = transform_data(raw_data)",
       "    ",
       "    # Validate",
       "    validated_data = validate_data(transformed_data)",
       "    ",
       "    # Load",
       "    load_data(validated_data)",
       "    ",
       "    return \"Pipeline completed successfully\"",
       "",
       "if __name__ == \"__main__\":",
       "    {pipeline_name_clean}_flow()",
       "" >>

\* the first brace of a text, 0 when it has none
FirstBrace(s) ==
    IF \E i \in 1..Len(s) : Ch(s, i) \in {"{", "}"}
    THEN CHOOSE i \in 1..Len(s) :
             /\ Ch(s, i) \in {"{", "}"}
             /\ \A j \in 1..(i - 1) : Ch(s, j) \notin {"{", "}"}
    ELSE 0

\* the first closing brace of a text that has one
FirstClose(s) ==
    CHOOSE i \in 1..Len(s) : Ch(s, i) = "}" /\ \A j \in 1..(i - 1) : Ch(s, j) # "}"

\* a text of one or more lines written at the end of the lines so far: its
\* first line continues the last line, its other lines start at column 0
WriteLines(out, lines) ==
    SubSeq(out, 1, Len(out) - 1) \o << out[Len(out)] \o lines[1] >> \o Tail(lines)

\* str.format on one line of a template: '{{' and '}}' give a brace,
\* '{name}' gives the value of the field, a text of one or more lines
RECURSIVE FormatLine(_, _, _)
FormatLine(s, values, out) ==
    IF FirstBrace(s) = 0 THEN WriteLines(out, <<s>>)
    ELSE LET at == FirstBrace(s)
             before == WriteLines(out, << SubSeq(s, 1, at - 1) >>)
             rest == SubSeq(s, at, Len(s))
         IN  IF StartsWith(rest, "{{") \/ StartsWith(rest, "}}")
             THEN FormatLine(SubSeq(rest, 3, Len(rest)), values,
                             WriteLines(before, << Ch(rest, 1) >>))
             ELSE FormatLine(SubSeq(rest, FirstClose(rest) + 1, Len(rest)), values,
                             WriteLines(before, values[SubSeq(rest, 2, FirstClose(rest) - 1)]))

\* template.format(**values): the lines of the text
RECURSIVE Format(_, _)
Format(template, values) ==
    IF template = <<>> THEN <<>>
    ELSE FormatLine(template[1], values, <<"">>) \o Format(Tail(template), values)

\* _generate_dbt_model, run at clock t: the values of the fields and the
\* text that format() makes of them
GenerateDbtModel(config, t) ==
    LET values ==
            [pipeline_name    |-> << Lower(ReplaceChar(config.name, " ", "_")) >>,
             timestamp        |-> << isoformat(Instant(t)) >>,
             source_schema    |-> << GetOr(config.source_config, "schema", "public") >>,
             source_table     |-> << GetOr(config.source_config, "table", "source_table") >>,
             select_columns   |-> << "*" >>,
             where_conditions |-> << "1=1" >>,
             transformations  |-> << "-- AI-recommended transformations would go here" >>]
    IN  [template         |-> "dbt_model",
         pipeline_name    |-> values.pipeline_name[1],
         timestamp        |-> values.timestamp[1],
         source_schema    |-> values.source_schema[1],
         source_table     |-> values.source_table[1],
         select_columns   |-> values.select_columns[1],
         where_conditions |-> values.where_conditions[1],
         transformations  |-> values.transformations[1],
         text             |-> Format(DbtModelTemplate, values)]

\* yaml.dump(asdict(config)): the keys in sorted order, a datetime written
\* with a space between date and time
YamlDump(config) ==
    [i \in 1..10 |->
        LET key == << "created_at", "destination_config", "destination_type",
                      "framework", "name", "quality_checks", "schedule",
                      "source_config", "source_type", "transformations" >>[i]
        IN  <<key, IF key = "created_at"
                   THEN ReplaceChar(isoformat(config.created_at), "T", " ")
                   ELSE config[key]>>]

\* generate_pipeline_code, run at clock t: the dict artifact name -> text.
\* An artifact made from a template is the record of the template's name,
\* of the values of its fields and of the text that format() returns.
GeneratePipelineCode(config, analysis, t) ==
    LET extract_code == GenerateExtractCode(config.source_type, config.source_config)
        transform_code == GenerateTransformCode(config.transformations, analysis)
        validation_code == GenerateValidationCode(config.quality_checks, analysis)
        load_code == GenerateLoadCode(config.destination_type, config.destination_config)
        pipeline_name_clean == CleanName(config.name)
        description == "AI-generated pipeline for " \o config.name
        snippets == [extract_code    |-> IndentCode(extract_code, 4),
                     transform_code  |-> IndentCode(transform_code, 4),
                     validation_code |-> IndentCode(validation_code, 4),
                     load_code       |-> IndentCode(load_code, 4)]
    IN  (IF Lower(config.framework) = "airflow"
         THEN << <<"dag.py",
                   [template        |-> "airflow_dag",
                    pipeline_name   |-> pipeline_name_clean,
                    description     |-> description,
                    schedule        |-> config.schedule,
                    extract_code    |-> snippets.extract_code,
                    transform_code  |-> snippets.transform_code,
                    validation_code |-> snippets.validation_code,
                    load_code       |-> snippets.load_code,
                    text |-> Format(AirflowDagTemplate,
                                [pipeline_name   |-> << pipeline_name_clean >>,
                                 description     |-> << description >>,
                                 schedule        |-> << config.schedule >>,
                                 extract_code    |-> snippets.extract_code,
                                 transform_code  |-> snippets.transform_code,
                                 validation_code |-> snippets.validation_code,
                                 load_code       |-> snippets.load_code])]>> >>
         ELSE IF Lower(config.framework) = "dbt"
         THEN << <<"model.sql", GenerateDbtModel(config, t)>> >>
         ELSE IF Lower(config.framework) = "prefect"
         THEN << <<"flow.py",
                   [template            |-> "prefect_flow",
                    pipeline_name       |-> config.name,
                    pipeline_name_clean |-> pipeline_name_clean,
                    description         |-> description,
                    extract_code        |-> snippets.extract_code,
                    transform_code      |-> snippets.transform_code,
                    validation_code     |-> snippets.validation_code,
                    load_code           |-> snippets.load_code,
                    text |-> Format(PrefectFlowTemplate,
                                [pipeline_name       |-> << config.name >>,
                                 pipeline_name_clean |-> << pipeline_name_clean >>,
                                 description         |-> << description >>,
                                 extract_code        |-> snippets.extract_code,
                                 transform_code      |-> snippets.transform_code,
                                 validation_code     |-> snippets.validation_code,
                                 load_code           |-> snippets.load_code])]>> >>
         ELSE <<>>)
        \o << <<"requirements.txt", GenerateRequirements(config.framework)>>,
              <<"config.yaml", YamlDump(config)>> >>

---------------------------------------------------------------------------
(* Calling the generator: on configs of every framework, with directives   *)
(* of every kind, beside an analysis that those directives came from or    *)
(* another one.                                                            *)

GenFrameworks == {"airflow", "dbt", "prefect", "DBT", "spark"}

\* the transformations and the quality checks of a config: none, those that
\* _create_pipeline_config writes, those that only a caller writes
GenDirectives ==
    { [transformations |-> <<>>, quality_checks |-> <<>>],
      [transformations |->
          << [type |-> "fill_nulls", column |-> "email", method |-> "median"],
             [type |-> "remove_duplicates", subset |-> None] >>,
       quality_checks |->
          << [type |-> "unique", column |-> "customer_id"],
             [type |-> "email_validation", column |-> "email"] >>],
      [transformations |->
          << [type |-> "fill_nulls", column |-> "amount", method |-> "median"] >>,
       quality_checks |->
          << [type |-> "email_validation", column |-> "contact"] >>],
      [transformations |->
          << [type |-> "filter", condition |-> "amount > 0"] >>,
       quality_checks |->
          << [type |-> "not_null", column |-> "email"],
             [type |-> "range", column |-> "amount", min |-> 0, max |-> 100] >>] }

\* an analysis that holds neither recommendations nor column types, and the
\* analyses of the two readable sources
GenAnalyses ==
    { [data_quality |-> <<>>] } \cup {AnalysisOf[src] : src \in {SrcCustomers, SrcEvents}}

\* the config that create_pipeline_from_data keeps for the customers source
RegisteredConfig ==
    PipelineConfig(KeywordsOf[CHOOSE r \in Requests : r.data_source = SrcCustomers, "p1"], 0)

GenConfigs ==
    { [RegisteredConfig EXCEPT !.name = "Daily Sales-EU",
                               !.framework = framework,
                               !.transformations = directives.transformations,
                               !.quality_checks = directives.quality_checks] :
        framework \in GenFrameworks, directives \in GenDirectives }

GenInputs == [config : GenConfigs, analysis : GenAnalyses]

\* generate_pipeline_code is a function of its arguments and of the clock;
\* its values on the inputs of the model, computed once
BundleOf ==
    [input \in GenInputs, t \in 0..MaxClock |->
        GeneratePipelineCode(input.config, input.analysis, t)]

\* a call of generate_pipeline_code by the holder of a manager
Generate(input) ==
    /\ ops < MaxOps
    /\ ops' = ops + 1
    /\ call' = [op |-> "generate", config |-> input.config, analysis |-> input.analysis]
    /\ ret' = BundleOf[input, now]
    /\ UNCHANGED <<pipelines, file, now, column, semantic>>

\* a manager that holds one pipeline, saved to the file
InitGenerate ==
    /\ pipelines = [m \in Managers |->
                       IF m = "m1" THEN <<<<"p1", RegisteredConfig>>>> ELSE <<>>]
    /\ file = FileJson(SerializeConfigs(<<<<"p1", RegisteredConfig>>>>))
    /\ now = 0
    /\ call = [op |-> "none"]
    /\ ret = None
    /\ ops = 0
    /\ column = NoColumn
    /\ semantic = "unset"

NextGenerate ==
    \/ \E input \in GenInputs : Generate(input)
    \/ Tick

SpecGenerate == InitGenerate /\ [][NextGenerate]_vars

Generated == call.op = "generate"

(* C18: for a config whose framework is airflow, dbt or prefect in any     *)
(* letter case, the requirements artifact is the five baseline             *)
(* requirements followed by the additions of that framework, and holds no  *)
(* addition of another framework.                                          *)
C18_RequirementsOfFramework ==
    (Generated /\ Lower(call.config.framework) \in {"airflow", "dbt", "prefect"}) =>
        LET lines == Get(ret, "requirements.txt")
            additions ==
                [airflow |-> << "apache-airflow>=2.5.0", "psycopg2-binary>=2.9.0" >>,
                 prefect |-> << "prefect>=2.0.0" >>,
                 dbt     |-> << "dbt-core>=1.0.0", "dbt-postgres>=1.0.0" >>]
        IN  /\ Len(lines) >= 5
            /\ SubSeq(lines, 1, 5)
                  = << "pandas>=1.3.0", "numpy>=1.21.0", "scikit-learn>=1.0.0",
                       "pyyaml>=6.0", "requests>=2.28.0" >>
            /\ SubSeq(lines, 6, Len(lines)) = additions[Lower(call.config.framework)]

\* a config whose framework is written in capitals
C18_Witness ==
    /\ Generated
    /\ call.config.framework = "DBT"
    /\ Len(Get(ret, "requirements.txt")) = 7
    /\ Get(ret, "requirements.txt")[7] = "dbt-postgres>=1.0.0"


\* the snippet that generate_pipeline_code put in a field of the dag or of
\* the flow; the dbt model and an unknown framework have none
HasSnippets == Generated /\ Lower(call.config.framework) \in {"airflow", "prefect"}

Snippet(field) == IF HasSnippets THEN ret[1][2][field] ELSE <<>>

\* the statement that translates a transformation directive, "" for a
\* directive of another type
TransformFragment(directive) ==
    IF directive.type = "fill_nulls"
    THEN "df['" \o directive.column \o "'] = df['" \o directive.column
             \o "'].fillna(df['" \o directive.column \o "'].median())"
    ELSE IF directive.type = "remove_duplicates" THEN "df = df.drop_duplicates()"
    ELSE ""

\* the first statement of the fragment that translates a quality check
CheckFragment(check) ==
    IF check.type = "email_validation"
    THEN "email_valid = df['" \o check.column \o "'].str.contains('@', na=False)"
    ELSE IF check.type = "unique"
    THEN "if df['" \o check.column \o "'].nunique() != len(df):"
    ELSE IF check.type = "not_null"
    THEN "null_count = df['" \o check.column \o "'].isnull().sum()"
    ELSE IF check.type = "range"
    THEN "out_of_range = df[(df['" \o check.column \o "'] < " \o IntToStr(check.min)
             \o ") | (df['" \o check.column \o "'] > " \o IntToStr(check.max)
             \o ")].shape[0]"
    ELSE ""

\* the line of a snippet that holds a statement, 0 when none does
PositionOf(statement, snippet) ==
    LET at == {i \in 1..Len(snippet) : LStrip(snippet[i]) = statement}
    IN  IF at = {} THEN 0 ELSE CHOOSE i \in at : \A j \in at : i <= j

\* the statements are all in the snippet, in the order of the list
InOrder(statements, snippet) ==
    LET wanted == {i \in 1..Len(statements) : statements[i] # ""}
    IN  /\ \A i \in wanted : PositionOf(statements[i], snippet) > 0
        /\ \A i, j \in wanted :
              i < j => PositionOf(statements[i], snippet) < PositionOf(statements[j], snippet)

(* C19: the transformation snippet holds a median imputation for every     *)
(* fill_nulls directive of the config and a de-duplication for every       *)
(* remove_duplicates directive, the validation snippet holds the fragment  *)
(* of every email_validation, unique, not_null and range check of the      *)
(* config, both in the order of the directives, whatever analysis is       *)
(* passed beside the config.                                               *)
C19_SnippetsTranslateDirectives ==
    HasSnippets =>
        /\ InOrder([i \in 1..Len(call.config.transformations) |->
                       TransformFragment(call.config.transformations[i])],
                   Snippet("transform_code"))
        /\ InOrder([i \in 1..Len(call.config.quality_checks) |->
                       CheckFragment(call.config.quality_checks[i])],
                   Snippet("validation_code"))


\* this step is a call of generate_pipeline_code
GenerateStep == ops' = ops + 1 /\ call'.op = "generate"

\* this step calls it with the arguments of the call before
SameArguments ==
    /\ Generated
    /\ call'.config = call.config
    /\ call'.analysis = call.analysis

(* C20: two calls of generate_pipeline_code with equal config and equal    *)
(* analysis return equal bundles, the same artifact names with the same    *)
(* text, and a call leaves the registry and its file as they were.         *)
C20_GenerateIsPure ==
    [][GenerateStep =>
          /\ pipelines' = pipelines
          /\ file' = file
          /\ (SameArguments => ret' = ret)]_vars

---------------------------------------------------------------------------
(* Validating a frame against a list of rules: rules that pass, that find  *)
(* something, that raise, and rules of a type the validator does not know. *)

MaxRules == 2

\* a frame that satisfies the checks written for its columns
DfClean ==
    Frame(<< Column("customer_id", "int64", Ints(<<1001, 1002, 1003, 1004, 1005>>)),
             Column("email", "object",
                 Strs(<<"a@b.co", "c@d.org", "e@f.net", "g@h.io", "i@j.se">>)),
             Column("signup_date", "object",
                 Strs(<<"2023-12-20", "2023-12-31", "2023-11-05", "2023-12-01",
                        "2023-12-24">>)) >>,
          << <<Corr(100)>> >>, None, None)

\* a frame with a repeated identifier, a missing email and an amount out of
\* any usual range
DfDirty ==
    Frame(<< Column("customer_id", "int64", Ints(<<1001, 1002, 1002, 1004, 1005>>)),
             Column("email", "object",
                 <<StrCell("a@b.co"), NullCell, StrCell("nobody"), StrCell("g@h.io"),
                   StrCell("i@j.se")>>),
             Column("amount", "float64",
                 <<IntCell(5), NullCell, IntCell(150), IntCell(7), IntCell(5)>>),
             Column("update_time", "object",
                 <<StrCell("2023-10-01"), NullCell, StrCell("2023-12-31"), NullCell,
                   NullCell>>) >>,
          << <<Corr(100), Corr(0)>>, <<Corr(0), Corr(100)>> >>, None, None)

\* frames long enough for the anomaly detector, one for each of its answers
DfLong ==
    { Frame(<< Column("amount", "int64", [i \in 1..11 |-> IntCell(10 * i)]),
               Column("email", "object",
                   [i \in 1..11 |-> StrCell("u" \o IntToStr(i) \o "@x.io")]) >>,
            << <<Corr(100)>> >>, None, outliers) :
        outliers \in OutlierAnswers }

\* a frame read from a file that holds a header only
DfHeaderOnly ==
    Frame(<< Column("email", "object", <<>>), Column("amount", "float64", <<>>) >>,
          << <<Corr(100)>> >>, None, None)

ValidationFrames == {DfClean, DfDirty, DfHeaderOnly} \cup DfLong

RulePool ==
    { [type |-> "not_null", column |-> "email"],
      [type |-> "unique", column |-> "customer_id"],
      [type |-> "range", column |-> "amount", min |-> 0, max |-> 100],
      [type |-> "unique", column |-> "missing"],
      [type |-> "range", column |-> "email", min |-> 0, max |-> 100],
      [type |-> "range", column |-> "amount"],
      [column |-> "email"],
      [type |-> "email_validation", column |-> "email"] }

\* the quality checks that _create_pipeline_config writes for a frame
EmittedChecks(df) == QualityChecksFor(InferColumnTypes(df))

\* the rule lists a frame is validated against
RuleLists(df) ==
    UNION {[1..k -> RulePool] : k \in 0..MaxRules} \cup {EmittedChecks(df)}

\* a call of validate_data_quality
ValidateQuality(df, quality_rules) ==
    /\ call.op = "none"
    /\ call' = [op |-> "validate_data_quality", df |-> df, quality_rules |-> quality_rules]
    /\ ret' = ValidateDataQuality(df, quality_rules)
    /\ ops' = ops + 1
    /\ UNCHANGED <<pipelines, file, now, column, semantic>>

NextValidate ==
    \E df \in ValidationFrames : \E quality_rules \in RuleLists(df) :
        ValidateQuality(df, quality_rules)

SpecValidate == Init /\ [][NextValidate]_vars

Validated == call.op = "validate_data_quality"

\* the rules of the call that do not pass, and the k-th of them
FailingRules ==
    {i \in 1..Len(call.quality_rules) :
        ~ExecuteQualityRule(call.df, call.quality_rules[i]).passed}

KthFailing(k) ==
    CHOOSE i \in FailingRules : Cardinality({j \in FailingRules : j <= i}) = k

\* the rules of the call whose evaluation raises
RaisingRules ==
    {i \in 1..Len(call.quality_rules) : RuleRaises(call.df, call.quality_rules[i])}

(* C21: validate_data_quality gives one issue for each rule that does not  *)
(* pass, in the order of the rules; a rule that raises gives the issue     *)
(* 'Error executing rule' for itself and stops nothing: the rules after it *)
(* are evaluated, the result carries metrics and insights, and 'passed' is *)
(* false exactly when the issue list is not empty.                         *)
C21_RuleFailuresAreIsolated ==
    Validated =>
        /\ Len(ret.issues) = Cardinality(FailingRules)
        /\ \A k \in 1..Len(ret.issues) :
              /\ ret.issues[k].rule = call.quality_rules[KthFailing(k)]
              /\ ~ret.issues[k].passed
              /\ KthFailing(k) \in RaisingRules
                    <=> StartsWith(ret.issues[k].message, "Error executing rule")
        /\ RaisingRules \subseteq FailingRules
        /\ {"metrics", "ai_insights"} \subseteq DOMAIN ret
        /\ ret.metrics.total_rows = NumRows(call.df)
        /\ Has(ret.ai_insights, "accuracy_score")
        /\ ret.passed <=> ret.issues = <<>>

\* a rule that raises, then a rule that finds a repeated identifier
C21_Witness ==
    /\ Validated
    /\ Len(call.quality_rules) = 2
    /\ RaisingRules = {1}
    /\ Len(ret.issues) = 2
    /\ StartsWith(ret.issues[1].message, "Error executing rule")
    /\ StartsWith(ret.issues[2].message, "Found 1 duplicate values")
    /\ ~ret.passed
    /\ ret.metrics.total_columns = 4

\* the frame of the call satisfies a check that _create_pipeline_config
\* wrote: no identifier twice, every email with an '@'
Satisfies(df, check) ==
    /\ HasColumn(df, check.column)
    /\ check.type = "unique" => DuplicatedCount(ColumnOf(df, check.column).cells) = 0
    /\ check.type = "email_validation" =>
          \A i \in 1..NumRows(df) :
              LET cell == ColumnOf(df, check.column).cells[i]
              IN  cell.kind = "str" /\ Contains(cell.v, "@")

(* C24: a check that _create_pipeline_config writes is never answered with *)
(* 'Unknown rule type', so a frame that satisfies every check written for  *)
(* it passes the validation.                                               *)
C24_EmittedChecksAreEvaluated ==
    (Validated /\ call.quality_rules = EmittedChecks(call.df)) =>
        /\ \A k \in 1..Len(ret.issues) :
              ~StartsWith(ret.issues[k].message, "Unknown rule type")
        /\ (\A i \in 1..Len(call.quality_rules) :
               Satisfies(call.df, call.quality_rules[i])) => ret.passed


\* the text of the primary artifact of the bundle: the dag, the model or
\* the flow
HasPrimary == Generated /\ Lower(call.config.framework) \in {"airflow", "dbt", "prefect"}

PrimaryText == IF HasPrimary THEN ret[1][2].text ELSE <<>>

\* every statement of a snippet stands on a line of the text
Embeds(text, snippet) ==
    \A i \in 1..Len(snippet) :
        IsBlank(snippet[i]) \/ \E j \in 1..Len(text) : LStrip(text[j]) = LStrip(snippet[i])

(* C22: for airflow, dbt and prefect alike, the primary artifact embeds    *)
(* the four snippets computed for the config: extract, transform, validate *)
(* and load.                                                               *)
C22_PrimaryEmbedsFourSnippets ==
    HasPrimary =>
        /\ Embeds(PrimaryText,
                  GenerateExtractCode(call.config.source_type, call.config.source_config))
        /\ Embeds(PrimaryText,
                  GenerateTransformCode(call.config.transformations, call.analysis))
        /\ Embeds(PrimaryText,
                  GenerateValidationCode(call.config.quality_checks, call.analysis))
        /\ Embeds(PrimaryText,
                  GenerateLoadCode(call.config.destination_type,
                                   call.config.destination_config))

\* the number of blanks a line starts with
Indentation(line) == Len(line) - Len(LStrip(line))

\* the lines of the text where format() put a snippet: the first line of
\* the snippet after whatever the template has before the field, the other
\* lines as they are
InsertedAt(text, snippet) ==
    {j \in 1..(Len(text) - Len(snippet) + 1) :
        /\ LStrip(text[j]) = LStrip(snippet[1])
        /\ SubSeq(text, j + 1, j + Len(snippet) - 1) = Tail(snippet)}

BodyIndent == 4

\* the first line of the snippet stands at the indentation of a function body
FirstLineAligned(text, snippet) ==
    /\ InsertedAt(text, snippet) # {}
    /\ \A j \in InsertedAt(text, snippet) : Indentation(text[j]) = BodyIndent

(* C28: in the dag and in the flow, the first line of each of the four     *)
(* inserted snippets stands at the indentation of the snippet's other      *)
(* top-level lines, 4 blanks inside the function.                          *)
C28_SnippetsAtOneIndentation ==
    HasSnippets =>
        \A field \in {"extract_code", "transform_code", "validation_code", "load_code"} :
            /\ \A i \in 2..Len(Snippet(field)) :
                  IsBlank(Snippet(field)[i]) \/ Indentation(Snippet(field)[i]) >= BodyIndent
            /\ FirstLineAligned(ret[1][2].text, Snippet(field))


(* C26: whenever create, update or delete has returned a success result,   *)
(* the registry file holds what the manager's registry holds, also when    *)
(* writing the file fails.                                                 *)
C26_SuccessMeansPersisted ==
    (call.op \in MutatingOperations /\ IsSuccess(ret)) =>
        file = SerializeConfigs(pipelines[call.m])

---------------------------------------------------------------------------
(* create_pipeline_from_data from the frame that its first step read to    *)
(* its result: the analysis, the config, the generated code, the save.     *)

\* the frames of up to MaxColumns columns, for one answer of the libraries
CreateFrames ==
    { Frame(columns,
            [i \in 1..Len(SelectSeq(columns, IsNumeric)) |->
                [j \in 1..Len(SelectSeq(columns, IsNumeric)) |->
                    IF i = j THEN Corr(100) ELSE Corr(0)]],
            None, None) :
        columns \in { c \in UNION {[1..k -> TextColumns \cup NumberColumns] :
                                      k \in 1..MaxColumns} :
                        \A i, j \in 1..Len(c) : i # j => c[i].name # c[j].name } }

\* steps 2 to 5 of create_pipeline_from_data, by manager m1 for 'p1', on
\* the frame read from data.csv
CreateFromFrame(df, framework, outcome) ==
    /\ call.op = "none"
    /\ call' = [op |-> "create", m |-> "m1", pipeline_name |-> "p1", df |-> df,
                framework |-> framework, save |-> outcome]
    /\ LET analysis_results == AnalyzeDataPatterns(df)
           pipeline_config ==
               PipelineConfig(ConfigKeywords("p1", "data.csv", analysis_results,
                                  framework, DefaultDestination), now)
           generated_code == GeneratePipelineCode(pipeline_config, analysis_results, now)
           stored == Put(pipelines["m1"], "p1", pipeline_config)
       IN  /\ pipelines' = [pipelines EXCEPT !["m1"] = stored]
           /\ file' = SaveConfigurations(stored, file, outcome)
           /\ ret' = [success         |-> TRUE,
                      pipeline_name   |-> "p1",
                      analysis        |-> analysis_results,
                      config          |-> pipeline_config,
                      generated_code  |-> generated_code,
                      recommendations |-> analysis_results.recommendations]
    /\ ops' = ops + 1
    /\ UNCHANGED <<now, column, semantic>>

NextCreate ==
    \E df \in CreateFrames, framework \in GenFrameworks, outcome \in SaveOutcomes :
        CreateFromFrame(df, framework, outcome)

SpecCreate == Init /\ [][NextCreate]_vars

\* create has accepted the request and stored the config
Created ==
    /\ call.op = "create"
    /\ IsSuccess(ret)
    /\ Has(pipelines[call.m], call.pipeline_name)

PrimaryNames == {"dag.py", "model.sql", "flow.py"}

(* C23: whatever framework the caller passed, the bundle of a created      *)
(* pipeline has exactly three artifacts: one primary source file, the      *)
(* requirements.txt and the config.yaml.                                   *)
C23_BundleHasThreeArtifacts ==
    Created =>
        /\ Len(ret.generated_code) = 3
        /\ Cardinality(Keys(ret.generated_code) \cap PrimaryNames) = 1
        /\ {"requirements.txt", "config.yaml"} \subseteq Keys(ret.generated_code)

\* the created pipeline has a transformation snippet: it is a dag or a flow
CreatedWithSnippets == Created /\ Lower(ret.config.framework) \in {"airflow", "prefect"}

TransformSnippet == IF CreatedWithSnippets THEN ret.generated_code[1][2].transform_code ELSE <<>>

\* the statements of the snippet that fill nulls, and those the fill_nulls
\* directives of the config stand for
FillStatements ==
    {LStrip(TransformSnippet[i]) :
        i \in {k \in 1..Len(TransformSnippet) : Contains(TransformSnippet[k], ".fillna(")}}

FillDirectives ==
    {TransformFragment(ret.config.transformations[i]) :
        i \in {k \in 1..Len(ret.config.transformations) :
                  ret.config.transformations[k].type = "fill_nulls"}}

(* C25: the transformation snippet generated by a create holds a           *)
(* de-duplication exactly when the stored config holds a remove_duplicates *)
(* directive, and a median fill for a column exactly when the config holds *)
(* a fill_nulls directive for it, for every frame and every column name.   *)
C25_SnippetAgreesWithDirectives ==
    CreatedWithSnippets =>
        /\ (\E i \in 1..Len(TransformSnippet) :
               LStrip(TransformSnippet[i]) = "df = df.drop_duplicates()")
           <=> (\E i \in 1..Len(ret.config.transformations) :
                   ret.config.transformations[i].type = "remove_duplicates")
        /\ FillStatements = FillDirectives

====
